---- MODULE Spec2Model ----
(***************************************************************************)
(* Model of the mesh asset pipeline of glue:                               *)
(*   - OBJ::parse (src/asset/assets/msh.rs), the line scanner and the      *)
(*     vertex de-duplication loop, one action per loop iteration;          *)
(*   - create_mesh3d_handle (src/asset/assets/msh.rs), the buffer layout   *)
(*     compiler.                                                           *)
(* f32 values are modelled by integers (the texts only carry integer       *)
(* literals), usize by integers modulo 2^UsizeBits.                        *)
(***************************************************************************)
EXTENDS Integers, Sequences, FiniteSets, TLC

\* ------------------------------------------------------------------------
\* Bounds of the model
\* ------------------------------------------------------------------------
MaxPos == 2
MaxTex == 2
MaxNrm == 1
MaxFaces == 2
UsizeBits == 16

\* ------------------------------------------------------------------------
\* Option<usize>, modelled as a sequence of length 0 or 1
\* ------------------------------------------------------------------------
None == <<>>

Some(x) == <<x>>

\* ------------------------------------------------------------------------
\* Number literals
\* ------------------------------------------------------------------------
LitRange == 0 .. (MaxPos + MaxTex + 2)

IsLit(tok) == \E n \in LitRange : ToString(n) = tok

LitValue(tok) == CHOOSE n \in LitRange : ToString(n) = tok

\* str.parse::<f32>().unwrap_or(0.0)
ParseF32(tok) == IF IsLit(tok) THEN LitValue(tok) ELSE 0

\* str.parse::<usize>().unwrap_or(1)
ParseUsizeOr1(tok) == IF IsLit(tok) THEN LitValue(tok) ELSE 1

UsizeMax == 2 ^ UsizeBits - 1

\* ------------------------------------------------------------------------
\* Lines of an OBJ text.  A line is the result of line.trim().split(' '):
\* tag is words[0]; nums are the remaining words of a v/vt/vn line; corners
\* are the remaining words of an f line, each already split at '/'.
\* ------------------------------------------------------------------------
DataLine(t, ns) == [tag |-> t, nums |-> ns, corners |-> <<>>]

FaceLine(cs) == [tag |-> "f", nums |-> <<>>, corners |-> cs]

\* words.len()
WordsLen(line) == 1 + Len(line.nums) + Len(line.corners)

VLine(k) == DataLine("v", <<ToString(k), "0", "x">>)

VTLine(k) == DataLine("vt", <<ToString(k), ToString(k - 1)>>)

VNLine(k) == DataLine("vn", <<"0", "x", ToString(k + 1)>>)

VShort == DataLine("v", <<"1", "0">>)

VTShort == DataLine("vt", <<"1">>)

VNShort == DataLine("vn", <<>>)

Comment == DataLine("#", <<"x">>)

Blank == DataLine("", <<>>)

DataText(nv, nt, nn) ==
  [k \in 1 .. nv |-> VLine(k)] \o [k \in 1 .. nt |-> VTLine(k)] \o [k \in 1 .. nn |-> VNLine(k)]

\* every pool is either absent or full
DataTexts ==
  { DataText(nv, nt, nn) : nv \in { 0, MaxPos }, nt \in { 0, MaxTex }, nn \in { 0, MaxNrm } }

Extras == { VShort, VTShort, VNShort, Comment, Blank, VLine(2) }

FaceMenu ==
  { FaceLine(<< <<"1">>, <<"1">>, <<"2">> >>),
    FaceLine(<< <<"x">>, <<"">>, <<"1">> >>),
    FaceLine(<< <<"1", "1">>, <<"2", "1">>, <<"2", "2">> >>),
    FaceLine(<< <<"1", "1", "1">>, <<"2", "", "1">>, <<"1", "1", "1">> >>),
    FaceLine(<< <<"1">>, <<"2", "1">>, <<"1", "1", "1">> >>),
    FaceLine(<< <<"2", "1", "1">>, <<"1", "1">>, <<"1">> >>),
    FaceLine(<< <<"1">>, <<"1", "0">>, <<"2">> >>),
    FaceLine(<< <<"1">>, <<"2">> >>),
    FaceLine(<< <<"1">>, <<"2">>, <<"1">>, <<"2">> >>) }

RECURSIVE SeqsUpTo(_, _)
SeqsUpTo(S, n) ==
  IF n = 0 THEN { <<>> }
  ELSE LET T == SeqsUpTo(S, n - 1)
       IN T \cup { Append(t, s) : t \in { u \in T : Len(u) = n - 1 }, s \in S }

FaceSeqs == SeqsUpTo(FaceMenu, MaxFaces)

Texts ==
  { d \o fs : d \in DataTexts, fs \in FaceSeqs }
    \cup { <<e>> \o DataText(MaxPos, 0, 0) \o fs : e \in Extras, fs \in FaceSeqs }
    \cup { DataText(1, 1, 0) \o fs \o <<e>> : e \in Extras, fs \in FaceSeqs }

\* ------------------------------------------------------------------------
\* State of one run of OBJ::parse
\* ------------------------------------------------------------------------
VARIABLES
  src,              \* the text handed to OBJ::parse, a sequence of lines
  overflow_checks,  \* build profile: TRUE panics on usize underflow, FALSE wraps
  pc,               \* "scan", "build", "done", or "idle" outside the parser
  ln,               \* number of lines of src scanned so far
  pos_data,
  uvm_data,
  nrm_data,
  verts,
  ci,               \* number of face corners handled by the build loop
  unique_verts,
  pos_attr,
  col_attr,
  uvm_attr,
  nrm_attr,
  ind_attr,
  keys,             \* history: the key computed for each corner handled
  ret,              \* what the call produced
  run,              \* how many times the text has been handed to OBJ::parse
  first_ret,        \* what the first run produced
  mesh,             \* the Mesh3DFile / Mesh2DFile being assembled
  shipped,          \* what ship() produced from it
  gl,               \* the calls made to the graphics backend, in order
  meshes,           \* the Mesh3D / Mesh2D values the program holds
  render_ret,       \* how the last render() call ended
  shader,           \* the Shader whose slots are being set
  binds,            \* number of set_tex_at_slot / set_sbo_at_slot calls made
  glsl_src,         \* the text handed to ShaderFile::from_src, a sequence of lines
  typ,              \* the ShaderType handed with it
  sfile,            \* what ShaderFile::from_src returned
  compiled,         \* what ShaderFile::compile returned
  path,             \* the path handed to Mesh3DFile::from_path
  disk,             \* what the file system holds at that path
  fs,               \* the file-system operations made, in order
  loaded,           \* what Mesh3DFile::from_path returned
  sbuf,             \* the StorageBuffer value the program holds
  store,            \* the backend's data store of that buffer, a sequence of bytes
  last_op,          \* the last StorageBuffer / Renderer call and its arguments
  renderer,         \* the Renderer value the program holds
  caps,             \* the backend's enabled capabilities
  ncalls            \* number of StorageBuffer / Renderer calls made

objVars ==
  << src, overflow_checks, pc, ln, pos_data, uvm_data, nrm_data, verts, ci,
     unique_verts, pos_attr, col_attr, uvm_attr, nrm_attr, ind_attr, keys, ret >>

runVars == << run, first_ret >>

meshVars == << mesh, shipped >>

gpuVars == << gl, meshes, render_ret, shader, binds >>

glslVars == << glsl_src, typ, sfile, compiled >>

pathVars == << path, disk, fs, loaded >>

ctxVars == << sbuf, store, last_op, renderer, caps, ncalls >>

extVars == << glslVars, pathVars, ctxVars >>

vars == << objVars, runVars, meshVars, gpuVars, extVars >>

Running == [kind |-> "Running"]

Panic(w) == [kind |-> "Panic", at |-> w]

NonTriangle(line) == [kind |-> "NonTriangle", line |-> line]

Parsed(p, c, u, n, i) ==
  [kind |-> "Parsed", pos_attr |-> p, col_attr |-> c, uvm_attr |-> u,
   nrm_attr |-> n, ind_attr |-> i]

\* ------------------------------------------------------------------------
\* ParseWords
\* ------------------------------------------------------------------------
\* parse_2_to_f32 indexes self[1..=2], parse_3_to_f32 self[1..=3]
ParseArityOk(line, N) == WordsLen(line) > N

parse_3_to_f32(line) ==
  << ParseF32(line.nums[1]), ParseF32(line.nums[2]), ParseF32(line.nums[3]) >>

parse_2_to_f32_noflip(line) ==
  << ParseF32(line.nums[1]), ParseF32(line.nums[2]) >>

parse_2_to_f32(line) ==
  << ParseF32(line.nums[1]), 1 - ParseF32(line.nums[2]) >>

\* one element of parse_to_usize: unwrap_or(1) - 1 on usize
SubIndexUnderflows(tok) == ParseUsizeOr1(tok) = 0

SubIndex(tok) ==
  IF SubIndexUnderflows(tok) THEN UsizeMax ELSE ParseUsizeOr1(tok) - 1

parse_to_usize(tokens) == [k \in 1 .. Len(tokens) |-> SubIndex(tokens[k])]

CornerUnderflows(tokens) == \E k \in 1 .. Len(tokens) : SubIndexUnderflows(tokens[k])

\* ------------------------------------------------------------------------
\* OBJ::parse, the scan loop (one line per step)
\* ------------------------------------------------------------------------
Halt(r) ==
  /\ pc' = "done"
  /\ ret' = r

ScanData(line) ==
  LET N == IF line.tag = "vt" THEN 2 ELSE 3
  IN IF ~ParseArityOk(line, N)
       THEN /\ Halt(Panic("index out of bounds in parse_N_to_f32"))
            /\ UNCHANGED << pos_data, uvm_data, nrm_data >>
       ELSE /\ pos_data' = IF line.tag = "v" THEN Append(pos_data, parse_3_to_f32(line))
                           ELSE pos_data
            /\ uvm_data' = IF line.tag = "vt" THEN Append(uvm_data, parse_2_to_f32(line))
                           ELSE uvm_data
            /\ nrm_data' = IF line.tag = "vn" THEN Append(nrm_data, parse_3_to_f32(line))
                           ELSE nrm_data
            /\ UNCHANGED << pc, ret >>

ScanFace(line) ==
  IF WordsLen(line) # 4
    THEN /\ Halt(NonTriangle(line))
         /\ UNCHANGED verts
    ELSE IF overflow_checks /\ \E k \in 1 .. 3 : CornerUnderflows(line.corners[k])
      THEN /\ Halt(Panic("subtract with overflow in parse_to_usize"))
           /\ UNCHANGED verts
      ELSE /\ verts' = verts \o [k \in 1 .. 3 |-> parse_to_usize(line.corners[k])]
           /\ UNCHANGED << pc, ret >>

ScanLine ==
  /\ pc = "scan"
  /\ ln < Len(src)
  /\ ln' = ln + 1
  /\ LET line == src[ln + 1]
     IN IF WordsLen(line) = 0
          THEN UNCHANGED << pos_data, uvm_data, nrm_data, verts, pc, ret >>
          ELSE IF line.tag \in { "v", "vt", "vn" }
            THEN ScanData(line) /\ UNCHANGED verts
            ELSE IF line.tag = "f"
              THEN ScanFace(line) /\ UNCHANGED << pos_data, uvm_data, nrm_data >>
              ELSE UNCHANGED << pos_data, uvm_data, nrm_data, verts, pc, ret >>
  /\ UNCHANGED << src, overflow_checks, ci, unique_verts, pos_attr, col_attr,
                  uvm_attr, nrm_attr, ind_attr, keys >>
  /\ UNCHANGED << runVars, meshVars, gpuVars, extVars >>

\* let attr_count = verts[0].len()
ScanEnd ==
  /\ pc = "scan"
  /\ ln = Len(src)
  /\ IF verts = <<>>
       THEN Halt(Panic("index out of bounds: verts[0]"))
       ELSE pc' = "build" /\ UNCHANGED ret
  /\ UNCHANGED << src, overflow_checks, ln, pos_data, uvm_data, nrm_data, verts,
                  ci, unique_verts, pos_attr, col_attr, uvm_attr, nrm_attr,
                  ind_attr, keys >>
  /\ UNCHANGED << runVars, meshVars, gpuVars, extVars >>

\* ------------------------------------------------------------------------
\* OBJ::parse, the de-duplication loop (one face corner per step)
\* ------------------------------------------------------------------------
attr_count == Len(verts[1])

pos_exists == attr_count > 0

uvm_exists == attr_count > 1

nrm_exists == attr_count > 2

def_uvm == << <<0, 0>>, <<0, 1>>, <<1, 0>> >>

def_col == <<1, 1, 1, 1>>

def_nrm == <<1, 1, 1>>

def_pos == <<0, 0, 0>>

\* vert[k] for the attributes that exist; FALSE when the index is out of bounds
VertHas(vert) ==
  /\ pos_exists => Len(vert) > 0
  /\ uvm_exists => Len(vert) > 1
  /\ nrm_exists => Len(vert) > 2

VertKey_uvm_from_pos(vert) ==
  << IF pos_exists THEN Some(vert[1]) ELSE None,
     IF uvm_exists THEN Some(vert[1]) ELSE None,
     IF nrm_exists THEN Some(vert[3]) ELSE None >>

VertKey(vert) ==
  << IF pos_exists THEN Some(vert[1]) ELSE None,
     IF uvm_exists THEN Some(vert[2]) ELSE None,
     IF nrm_exists THEN Some(vert[3]) ELSE None >>

\* pool[id] is in bounds (or the attribute is absent)
PoolHas(pool, index) == index # None => index[1] < Len(pool)

PoolGet(pool, index, default) == IF index # None THEN pool[index[1] + 1] ELSE default

v_local_one_based(i) == (i + 1) % 3

\* let v_local = i % 3
v_local(i) == i % 3

BuildCorner ==
  /\ pc = "build"
  /\ ci < Len(verts)
  /\ LET vert == verts[ci + 1]
     IN IF ~VertHas(vert)
          THEN /\ Halt(Panic("index out of bounds: vert[k]"))
               /\ UNCHANGED << ci, unique_verts, pos_attr, col_attr, uvm_attr,
                               nrm_attr, ind_attr, keys >>
          ELSE LET key == VertKey(vert)
               IN IF key \in DOMAIN unique_verts
                    THEN /\ ind_attr' = Append(ind_attr, unique_verts[key])
                         /\ ci' = ci + 1
                         /\ keys' = Append(keys, key)
                         /\ UNCHANGED << unique_verts, pos_attr, col_attr, uvm_attr,
                                         nrm_attr, pc, ret >>
                    ELSE IF ~(/\ PoolHas(pos_data, key[1])
                              /\ PoolHas(uvm_data, key[2])
                              /\ PoolHas(nrm_data, key[3]))
                      THEN /\ Halt(Panic("index out of bounds: pool[id]"))
                           /\ keys' = Append(keys, key)
                           /\ UNCHANGED << ci, unique_verts, pos_attr, col_attr,
                                           uvm_attr, nrm_attr, ind_attr >>
                      ELSE LET new == Len(pos_attr)
                           IN /\ unique_verts' = (key :> new) @@ unique_verts
                              /\ pos_attr' = Append(pos_attr, PoolGet(pos_data, key[1], def_pos))
                              /\ uvm_attr' = Append(uvm_attr,
                                                    PoolGet(uvm_data, key[2], def_uvm[v_local(ci) + 1]))
                              /\ nrm_attr' = Append(nrm_attr, PoolGet(nrm_data, key[3], def_nrm))
                              /\ col_attr' = Append(col_attr, def_col)
                              /\ ind_attr' = Append(ind_attr, new)
                              /\ ci' = ci + 1
                              /\ keys' = Append(keys, key)
                              /\ UNCHANGED << pc, ret >>
  /\ UNCHANGED << src, overflow_checks, ln, pos_data, uvm_data, nrm_data, verts >>
  /\ UNCHANGED << runVars, meshVars, gpuVars, extVars >>

BuildEnd ==
  /\ pc = "build"
  /\ ci = Len(verts)
  /\ Halt(Parsed(pos_attr, col_attr, uvm_attr, nrm_attr, ind_attr))
  /\ UNCHANGED << src, overflow_checks, ln, pos_data, uvm_data, nrm_data, verts,
                  ci, unique_verts, pos_attr, col_attr, uvm_attr, nrm_attr,
                  ind_attr, keys >>
  /\ UNCHANGED << runVars, meshVars, gpuVars, extVars >>

\* ------------------------------------------------------------------------
\* Attribute buffers.  A fixed attribute holds element groups of f32 (u32
\* for the index attribute); a custom attribute holds raw bytes.  A byte of
\* the model is <<"f32", x, b>>, byte b of the scalar x, or <<"raw", j, k>>.
\* ------------------------------------------------------------------------
ATTRInfo(ec, bc) == [elem_count |-> ec, byte_count |-> bc]

Pos3DInfo == ATTRInfo(3, 4)

Pos2DInfo == ATTRInfo(2, 4)

ColInfo == ATTRInfo(4, 4)

UVMInfo == ATTRInfo(2, 4)

NrmInfo == ATTRInfo(3, 4)

IndInfo == ATTRInfo(1, 4)

ATTR(info, data) == [info |-> info, data |-> data]

is_empty(attr) == Len(attr.data) = 0

\* elem_count * byte_count
AttrSize(info) == info.elem_count * info.byte_count

Mesh3DFile(pos, col, uvm, nrm, ind, cus) ==
  [dim |-> 3, pos_attr |-> ATTR(Pos3DInfo, pos), col_attr |-> ATTR(ColInfo, col),
   uvm_attr |-> ATTR(UVMInfo, uvm), nrm_attr |-> ATTR(NrmInfo, nrm),
   ind_attr |-> ATTR(IndInfo, ind), cus_attrs |-> cus]

\* a Mesh2DFile has no normal attribute: nrm_attr stays empty and is never set
Mesh2DFile(pos, col, uvm, ind, cus) ==
  [dim |-> 2, pos_attr |-> ATTR(Pos2DInfo, pos), col_attr |-> ATTR(ColInfo, col),
   uvm_attr |-> ATTR(UVMInfo, uvm), nrm_attr |-> ATTR(NrmInfo, <<>>),
   ind_attr |-> ATTR(IndInfo, ind), cus_attrs |-> cus]

MeshFile_empty(dim) ==
  IF dim = 3 THEN Mesh3DFile(<<>>, <<>>, <<>>, <<>>, <<>>, <<>>)
  ELSE Mesh2DFile(<<>>, <<>>, <<>>, <<>>, <<>>)

NoMesh == [dim |-> 0]

NotShipped == [kind |-> "NotShipped"]

\* ------------------------------------------------------------------------
\* Buffer::push_attr
\* ------------------------------------------------------------------------
u8ify(x) == [b \in 1 .. 4 |-> <<"f32", x, b>>]

RECURSIVE push_attr(_, _)
push_attr(buffer, attr) ==
  IF attr = <<>> THEN buffer
  ELSE push_attr(buffer \o u8ify(Head(attr)), Tail(attr))

\* ------------------------------------------------------------------------
\* create_mesh3d_handle / create_mesh2d_handle
\* ------------------------------------------------------------------------
starts_with_custom(m) ==
  /\ is_empty(m.pos_attr)
  /\ is_empty(m.col_attr)
  /\ is_empty(m.uvm_attr)
  /\ is_empty(m.nrm_attr)

\* the fixed attributes whose *_exists flag is set, in the order of the ifs
FixedExisting(m) ==
  SelectSeq(<< m.pos_attr, m.col_attr, m.uvm_attr, m.nrm_attr >>,
            LAMBDA a : ~is_empty(a))

cus_infos(m) == [j \in 1 .. Len(m.cus_attrs) |-> m.cus_attrs[j].info]

cus_datas(m) == [j \in 1 .. Len(m.cus_attrs) |-> m.cus_attrs[j].data]

\* the infos in the order in which stride, set_attr_layout and layouts take them
LayoutInfos(m) ==
  [k \in 1 .. Len(FixedExisting(m)) |-> FixedExisting(m)[k].info] \o cus_infos(m)

RECURSIVE SumSizes(_, _)
SumSizes(infos, n) ==
  IF n = 0 THEN 0 ELSE SumSizes(infos, n - 1) + AttrSize(infos[n])

stride(m) == SumSizes(LayoutInfos(m), Len(LayoutInfos(m)))

\* local_offset when the k-th set_attr_layout call is made
local_offset(m, k) == SumSizes(LayoutInfos(m), k - 1)

layouts(m) == [k \in 1 .. Len(LayoutInfos(m)) |-> << LayoutInfos(m)[k], k - 1 >>]

attr_layout_calls(m) ==
  [k \in 1 .. Len(LayoutInfos(m)) |->
     [attr |-> LayoutInfos(m)[k], attr_id |-> k - 1, stride |-> stride(m),
      local_offset |-> local_offset(m, k)]]

\* cus_datas[0] and the division that follow starts_with_custom()
EndPanics(m) ==
  starts_with_custom(m) /\ (Len(m.cus_attrs) = 0 \/ AttrSize(cus_infos(m)[1]) = 0)

end(m) ==
  IF starts_with_custom(m)
    THEN Len(cus_datas(m)[1]) \div AttrSize(cus_infos(m)[1])
    ELSE Len(m.pos_attr.data)

\* the indexing of iteration i (0-based) of the interleaving loop goes out of bounds
RecordPanics(m, i) ==
  \/ \E k \in 1 .. Len(FixedExisting(m)) : i >= Len(FixedExisting(m)[k].data)
  \/ \E j \in 1 .. Len(m.cus_attrs) :
       \/ AttrSize(cus_infos(m)[j]) = 0
       \/ (i + 1) * AttrSize(cus_infos(m)[j]) > Len(cus_datas(m)[j])

RECURSIVE PushFixed(_, _, _, _)
PushFixed(buffer, fixed, k, i) ==
  IF k > Len(fixed) THEN buffer
  ELSE PushFixed(push_attr(buffer, fixed[k].data[i + 1]), fixed, k + 1, i)

RECURSIVE PushCustoms(_, _, _, _)
PushCustoms(buffer, m, j, i) ==
  IF j > Len(m.cus_attrs) THEN buffer
  ELSE LET cus_byte_count == AttrSize(cus_infos(m)[j])
           start == i * cus_byte_count
           last == ((i + 1) * cus_byte_count) - 1
       IN PushCustoms(buffer \o SubSeq(cus_datas(m)[j], start + 1, last + 1), m, j + 1, i)

\* the custom windows pushed before the fixed attributes
Record_customs_first(m, i) == PushFixed(PushCustoms(<<>>, m, 1, i), FixedExisting(m), 1, i)

\* the record of vertex i (0-based)
Record(m, i) == PushCustoms(PushFixed(<<>>, FixedExisting(m), 1, i), m, 1, i)

RECURSIVE Interleave(_, _)
Interleave(m, n) == IF n = 0 THEN <<>> ELSE Interleave(m, n - 1) \o Record(m, n - 1)

CompilePanics(m) ==
  \/ EndPanics(m)
  \/ \E i \in 0 .. (end(m) - 1) : RecordPanics(m, i)

\* the names a fresh context hands out: GenVertexArrays gives the first vertex
\* array, GenBuffers the first and then the second buffer
vao_id == 1

buf_id == 1

ind_id == 2

\* the Mesh3D / Mesh2D that ship() builds around the handle, together with the
\* stride, the layout calls and the two buffers the compilation built
MeshHandle(m) ==
  [kind |-> "Mesh",
   dim |-> m.dim,
   visibility |-> TRUE,
   shader |-> None,
   draw_mode |-> "Triangles",
   layouts |-> layouts(m),
   attr_layout_calls |-> attr_layout_calls(m),
   stride |-> stride(m),
   buffer |-> Interleave(m, end(m)),
   vert_count |-> end(m),
   has_indices |-> ~is_empty(m.ind_attr),
   ind_count |-> Len(m.ind_attr.data),
   index_buffer |-> m.ind_attr.data,
   vao_id |-> vao_id,
   buf_id |-> buf_id,
   ind_id |-> ind_id]

create_mesh_handle(m) ==
  IF CompilePanics(m) THEN Panic("index out of bounds in create_mesh_handle")
  ELSE MeshHandle(m)

\* ------------------------------------------------------------------------
\* The graphics backend: every gl:: call is recorded with its arguments
\* ------------------------------------------------------------------------
Gl(op, args) == [op |-> op, args |-> args]

create_mesh_buffer ==
  << Gl("GenVertexArrays", << vao_id >>), Gl("GenBuffers", << buf_id >>) >>

delete_mesh_buffer(v_id, b_id) ==
  << Gl("DeleteVertexArrays", << v_id >>), Gl("DeleteBuffers", << b_id >>) >>

bind_layouts(v_id) == << Gl("BindVertexArray", << v_id >>) >>

set_attr_layout(attr, attr_id, strd, offset) ==
  << Gl("VertexAttribPointer", << attr_id, attr.elem_count, strd, offset >>),
     Gl("EnableVertexAttribArray", << attr_id >>) >>

bind_buffer(id) == << Gl("BindBuffer", << "ARRAY_BUFFER", id >>) >>

fill_buffer(id, data) ==
  bind_buffer(id) \o << Gl("BufferData", << "ARRAY_BUFFER", data >>) >>

unbind_buffer == << Gl("BindBuffer", << "ARRAY_BUFFER", 0 >>) >>

create_index_buffer == << Gl("GenBuffers", << ind_id >>) >>

bind_index_buffer(id) == << Gl("BindBuffer", << "ELEMENT_ARRAY_BUFFER", id >>) >>

fill_index_buffer(id, data) ==
  bind_index_buffer(id) \o << Gl("BufferData", << "ELEMENT_ARRAY_BUFFER", data >>) >>

unbind_index_buffer == << Gl("BindBuffer", << "ELEMENT_ARRAY_BUFFER", 0 >>) >>

delete_index_buffer(id) == << Gl("DeleteBuffers", << id >>) >>

\* ------------------------------------------------------------------------
\* The backend calls of create_mesh3d_handle / create_mesh2d_handle
\* ------------------------------------------------------------------------
\* the set_attr_layout calls of the first n layout entries
RECURSIVE set_layouts(_, _)
set_layouts(m, n) ==
  IF n = 0 THEN <<>>
  ELSE LET c == attr_layout_calls(m)[n]
       IN set_layouts(m, n - 1)
            \o set_attr_layout(c.attr, c.attr_id, c.stride, c.local_offset)

\* one fill_buffer call per record
RECURSIVE fill_per_record(_, _)
fill_per_record(m, n) ==
  IF n = 0 THEN <<>>
  ELSE fill_per_record(m, n - 1) \o fill_buffer(buf_id, Record(m, n - 1))

upload_vertices_per_record(m) == fill_per_record(m, end(m))

\* if buffer.len() > 0 { fill_buffer(buf_id, &buffer) }
upload_vertices(m) ==
  IF Len(Interleave(m, end(m))) > 0
    THEN fill_buffer(buf_id, Interleave(m, end(m)))
    ELSE <<>>

upload_indices(m) ==
  IF ~is_empty(m.ind_attr)
    THEN bind_index_buffer(ind_id) \o fill_index_buffer(ind_id, m.ind_attr.data)
           \o unbind_index_buffer
    ELSE <<>>

\* the calls of one compilation; an abort happens in the interleaving loop,
\* after the buffers were created and before anything is bound
create_mesh_handle_calls(m) ==
  create_mesh_buffer \o create_index_buffer
    \o (IF CompilePanics(m) THEN <<>>
        ELSE bind_layouts(vao_id) \o bind_buffer(buf_id)
               \o set_layouts(m, Len(LayoutInfos(m)))
               \o upload_vertices(m) \o unbind_buffer \o upload_indices(m))

\* ------------------------------------------------------------------------
\* Assembling a mesh file and shipping it
\* ------------------------------------------------------------------------
MaxVerts == 2
MaxCustoms == 2

\* n element groups of ec scalars, all distinct
Elems(base, ec, n) == [i \in 1 .. n |-> [c \in 1 .. ec |-> base + 10 * i + c]]

RawBytes(j, n) == [k \in 1 .. n |-> <<"raw", j, k>>]

CustomInfos == { ATTRInfo(1, 4), ATTRInfo(2, 1) }

IndDatas == { <<>>, <<0>>, <<MaxVerts - 1, 0, 0>> }

\* lengths of the attribute buffers handed to the setters
Lengths == { 0, 1, MaxVerts }

Assembling == pc = "idle" /\ mesh # NoMesh /\ shipped = NotShipped

set_pos_attr ==
  /\ Assembling
  /\ \E n \in Lengths :
       mesh' = [mesh EXCEPT !.pos_attr.data = Elems(100, mesh.pos_attr.info.elem_count, n)]
  /\ UNCHANGED << objVars, runVars, shipped, gpuVars, extVars >>

set_col_attr ==
  /\ Assembling
  /\ \E n \in Lengths : mesh' = [mesh EXCEPT !.col_attr.data = Elems(200, 4, n)]
  /\ UNCHANGED << objVars, runVars, shipped, gpuVars, extVars >>

set_uvm_attr ==
  /\ Assembling
  /\ \E n \in Lengths : mesh' = [mesh EXCEPT !.uvm_attr.data = Elems(300, 2, n)]
  /\ UNCHANGED << objVars, runVars, shipped, gpuVars, extVars >>

set_nrm_attr ==
  /\ Assembling
  /\ mesh.dim = 3
  /\ \E n \in Lengths : mesh' = [mesh EXCEPT !.nrm_attr.data = Elems(400, 3, n)]
  /\ UNCHANGED << objVars, runVars, shipped, gpuVars, extVars >>

set_ind_attr ==
  /\ Assembling
  /\ \E d \in IndDatas : mesh' = [mesh EXCEPT !.ind_attr.data = d]
  /\ UNCHANGED << objVars, runVars, shipped, gpuVars, extVars >>

attach_custom_attr ==
  /\ Assembling
  /\ Len(mesh.cus_attrs) < MaxCustoms
  /\ \E info \in CustomInfos, n \in Lengths :
       mesh' = [mesh EXCEPT !.cus_attrs =
                  Append(@, ATTR(info, RawBytes(Len(@) + 1, n * AttrSize(info))))]
  /\ UNCHANGED << objVars, runVars, shipped, gpuVars, extVars >>

ship ==
  /\ mesh # NoMesh
  /\ shipped = NotShipped
  /\ shipped' = create_mesh_handle(mesh)
  /\ gl' = gl \o create_mesh_handle_calls(mesh)
  /\ meshes' = (IF CompilePanics(mesh) THEN meshes ELSE Append(meshes, MeshHandle(mesh)))
  /\ UNCHANGED << objVars, runVars, mesh, render_ret, shader, binds, extVars >>

\* ------------------------------------------------------------------------
\* Mesh3DFile::from_path, after the text has been read
\* ------------------------------------------------------------------------
from_path ==
  /\ pc = "done"
  /\ ret.kind = "Parsed"
  /\ mesh = NoMesh
  /\ mesh' = Mesh3DFile(ret.pos_attr, ret.col_attr, ret.uvm_attr, ret.nrm_attr,
                        ret.ind_attr, <<>>)
  /\ UNCHANGED << objVars, runVars, shipped, gpuVars, extVars >>

\* the same text handed to OBJ::parse again: every local starts afresh
Reparse ==
  /\ pc = "done"
  /\ run = 1
  /\ mesh = NoMesh
  /\ run' = 2
  /\ first_ret' = ret
  /\ pc' = "scan"
  /\ ln' = 0
  /\ pos_data' = <<>>
  /\ uvm_data' = <<>>
  /\ nrm_data' = <<>>
  /\ verts' = <<>>
  /\ ci' = 0
  /\ unique_verts' = <<>>
  /\ pos_attr' = <<>>
  /\ col_attr' = <<>>
  /\ uvm_attr' = <<>>
  /\ nrm_attr' = <<>>
  /\ ind_attr' = <<>>
  /\ keys' = <<>>
  /\ ret' = Running
  /\ UNCHANGED << src, overflow_checks, meshVars, gpuVars, extVars >>

\* ------------------------------------------------------------------------
\* Shader (renderer/handles/shader.rs), as ShaderFile::compile returns it
\* ------------------------------------------------------------------------
MaxTextures == 2
MaxStorages == 2
MaxBinds == 2

TexSlot_total_slots == 12

SBOSlot_total_slots == 12

\* TexSlot::as_index over S0 .. S11
TexSlots == 0 .. 11

NoShader == [kind |-> "NoShader"]

\* uniforms: the names for which GetUniformLocation of the linked program
\* does not answer -1
CompiledShader(id, is_compute, uniforms) ==
  [kind |-> "Shader",
   id |-> id,
   is_compute |-> is_compute,
   tex_ids |-> [s \in 1 .. TexSlot_total_slots |-> None],
   sbo_ids |-> [s \in 1 .. SBOSlot_total_slots |-> None],
   uniforms |-> uniforms]

Texture2D(id) == [id |-> id]

StorageBuffer(id, size) == [id |-> id, size |-> size]

TexMenu == { Texture2D(i) : i \in 1 .. MaxTextures }

\* buffer names are handed out apart from texture names
SboMenu == { StorageBuffer(10 + i, 4) : i \in 1 .. MaxStorages }

\* self.tex_ids[slot.as_index()] = Some(tex.id)
tex_at_slot(sh, tex, slot) == [sh EXCEPT !.tex_ids[slot + 1] = Some(tex.id)]

\* self.tex_ids[slot.as_index()] = Some(sbo.id)
sbo_at_slot(sh, sbo, slot) == [sh EXCEPT !.tex_ids[slot + 1] = Some(sbo.id)]

\* the shader after one set_tex_at_slot call per slot S0 .. S(n-1), each with
\* another texture
RECURSIVE FilledShader(_, _)
FilledShader(sh, n) ==
  IF n = 0 THEN sh
  ELSE tex_at_slot(FilledShader(sh, n - 1), Texture2D(100 + n), n - 1)

set_tex_at_slot(tex, slot) ==
  /\ shader # NoShader
  /\ binds < MaxBinds
  /\ shader' = tex_at_slot(shader, tex, slot)
  /\ binds' = binds + 1
  /\ UNCHANGED << objVars, runVars, meshVars, gl, meshes, render_ret, extVars >>

set_sbo_at_slot(sbo, slot) ==
  /\ shader # NoShader
  /\ binds < MaxBinds
  /\ shader' = sbo_at_slot(shader, sbo, slot)
  /\ binds' = binds + 1
  /\ UNCHANGED << objVars, runVars, meshVars, gl, meshes, render_ret, extVars >>

SetTexAtSlot == \E tex \in TexMenu, slot \in TexSlots : set_tex_at_slot(tex, slot)

SetSboAtSlot == \E sbo \in SboMenu, slot \in TexSlots : set_sbo_at_slot(sbo, slot)

Shader_bind(sh) == << Gl("UseProgram", << sh.id >>) >>

bind_texture2d_sampler_at(tex_id, slot) ==
  << Gl("ActiveTexture", << slot >>), Gl("BindTexture", << tex_id >>) >>

bind_image_texture2d_at(tex_id, slot) == << Gl("BindImageTexture", << slot, tex_id >>) >>

bind_storage_buffer_at(id, slot) == << Gl("BindBufferBase", << slot, id >>) >>

\* the calls for the first n slots of tex_ids
RECURSIVE bind_textures_upto(_, _)
bind_textures_upto(sh, n) ==
  IF n = 0 THEN <<>>
  ELSE bind_textures_upto(sh, n - 1)
         \o (IF sh.tex_ids[n] = None THEN <<>>
             ELSE IF sh.is_compute
                    THEN bind_image_texture2d_at(sh.tex_ids[n][1], n - 1)
                    ELSE bind_texture2d_sampler_at(sh.tex_ids[n][1], n - 1))

bind_textures(sh) == bind_textures_upto(sh, Len(sh.tex_ids))

RECURSIVE bind_storages_upto(_, _)
bind_storages_upto(sh, n) ==
  IF n = 0 THEN <<>>
  ELSE bind_storages_upto(sh, n - 1)
         \o (IF sh.sbo_ids[n] = None THEN <<>>
             ELSE bind_storage_buffer_at(sh.sbo_ids[n][1], n - 1))

bind_storages(sh) == bind_storages_upto(sh, Len(sh.sbo_ids))

\* get_uni_location panics when the program has no such uniform
UniformMissing(sh, name) == name \notin sh.uniforms

get_uni_location(sh, name) == << Gl("GetUniformLocation", << sh.id, name >>) >>

\* set_uni_m4_f32 / set_uni_u32: the location is looked up, then the value set
set_uni(sh, op, name) ==
  get_uni_location(sh, name)
    \o (IF UniformMissing(sh, name) THEN <<>> ELSE << Gl(op, << name >>) >>)

\* ------------------------------------------------------------------------
\* Mesh3D / Mesh2D and MeshHandle (renderer/handles/mesh.rs)
\* ------------------------------------------------------------------------
MaxMeshes == 2
MaxRenders == 2

Moved == [kind |-> "Moved"]

NotRendered == [kind |-> "NotRendered"]

Returned == [kind |-> "Returned"]

vertex_count(e) == e.vert_count

Mesh_is_empty(e) == vertex_count(e) = 0

is_visible_flag_only(e) == e.visibility

is_visible(e) == e.visibility \/ ~Mesh_is_empty(e)

draw_indexed(h) == << Gl("DrawElements", << h.draw_mode, h.ind_count >>) >>

draw_array(h) == << Gl("DrawArrays", << h.draw_mode, 0, h.vert_count >>) >>

\* has_indices is not looked at
draw_never_indexed(h) == bind_layouts(h.vao_id) \o draw_array(h)

draw(h) ==
  bind_layouts(h.vao_id)
    \o (IF h.has_indices THEN bind_index_buffer(h.ind_id) \o draw_indexed(h)
        ELSE draw_array(h))

MeshHandle_delete(h) == delete_mesh_buffer(h.vao_id, h.buf_id) \o delete_index_buffer(h.ind_id)


\* the uniform lookups of render() abort it
RenderPanics(e) ==
  \/ UniformMissing(e.shader[1], "uTfm")
  \/ e.dim = 2 /\ UniformMissing(e.shader[1], "uLayer")

\* the calls of Mesh3D::render / Mesh2D::render once the shader is known
render_calls(e) ==
  LET sh == e.shader[1]
  IN Shader_bind(sh)
       \o set_uni(sh, "UniformMatrix4fv", "uTfm")
       \o (IF UniformMissing(sh, "uTfm") THEN <<>>
           ELSE (IF e.dim = 2 THEN set_uni(sh, "Uniform1ui", "uLayer") ELSE <<>>)
                  \o (IF e.dim = 2 /\ UniformMissing(sh, "uLayer") THEN <<>>
                      ELSE bind_textures(sh) \o bind_storages(sh) \o draw(e)))

RECURSIVE CountOp(_, _)
CountOp(log, op) ==
  IF log = <<>> THEN 0
  ELSE CountOp(Tail(log), op) + (IF Head(log).op = op THEN 1 ELSE 0)

\* the program holds the mesh and has not aborted
Held(k) ==
  /\ k \in 1 .. Len(meshes)
  /\ meshes[k].kind = "Mesh"
  /\ render_ret.kind # "Panic"

ShaderMenu ==
  { tex_at_slot(CompiledShader(1, FALSE, { "uTfm", "uLayer" }), Texture2D(1), 0),
    sbo_at_slot(CompiledShader(2, FALSE, { "uTfm" }), StorageBuffer(11, 4), 1),
    CompiledShader(3, FALSE, { }) }

Mesh_clone(k) ==
  /\ Held(k)
  /\ Len(meshes) < MaxMeshes
  /\ meshes' = Append(meshes, meshes[k])
  /\ UNCHANGED << objVars, runVars, meshVars, gl, render_ret, shader, binds, extVars >>

set_shader(k, sh) ==
  /\ Held(k)
  /\ meshes' = [meshes EXCEPT ![k].shader = Some(sh)]
  /\ UNCHANGED << objVars, runVars, meshVars, gl, render_ret, shader, binds, extVars >>

remove_shader(k) ==
  /\ Held(k)
  /\ meshes' = [meshes EXCEPT ![k].shader = None]
  /\ UNCHANGED << objVars, runVars, meshVars, gl, render_ret, shader, binds, extVars >>

set_visibility(k, enable) ==
  /\ Held(k)
  /\ meshes' = [meshes EXCEPT ![k].visibility = enable]
  /\ UNCHANGED << objVars, runVars, meshVars, gl, render_ret, shader, binds, extVars >>

toggle_visibility(k) ==
  /\ Held(k)
  /\ meshes' = [meshes EXCEPT ![k].visibility = ~meshes[k].visibility]
  /\ UNCHANGED << objVars, runVars, meshVars, gl, render_ret, shader, binds, extVars >>

render(k) ==
  /\ Held(k)
  /\ CountOp(gl, "UseProgram") < MaxRenders
  /\ IF ~is_visible(meshes[k]) \/ meshes[k].shader = None
       THEN gl' = gl /\ render_ret' = Returned
       ELSE /\ gl' = gl \o render_calls(meshes[k])
            /\ render_ret' = (IF RenderPanics(meshes[k])
                                THEN Panic("uniform does not exist")
                                ELSE Returned)
  /\ UNCHANGED << objVars, runVars, meshVars, meshes, shader, binds, extVars >>

\* delete(self) consumes the value
Mesh_delete(k) ==
  /\ Held(k)
  /\ gl' = gl \o MeshHandle_delete(meshes[k])
  /\ meshes' = [meshes EXCEPT ![k] = Moved]
  /\ UNCHANGED << objVars, runVars, meshVars, render_ret, shader, binds, extVars >>

MeshIds == 1 .. MaxMeshes

Clone == \E k \in MeshIds : Mesh_clone(k)

SetShader == \E k \in MeshIds, sh \in ShaderMenu : set_shader(k, sh)

RemoveShader == \E k \in MeshIds : remove_shader(k)

SetVisibility == \E k \in MeshIds, enable \in BOOLEAN : set_visibility(k, enable)

ToggleVisibility == \E k \in MeshIds : toggle_visibility(k)

Render == \E k \in MeshIds : render(k)

Delete == \E k \in MeshIds : Mesh_delete(k)

\* mesh files as the setters leave them
MeshMenu ==
  { Mesh3DFile(Elems(100, 3, MaxVerts), <<>>, <<>>, <<>>, <<>>, <<>>),
    Mesh3DFile(Elems(100, 3, MaxVerts), <<>>, Elems(300, 2, MaxVerts), <<>>,
               << MaxVerts - 1, 0, 0 >>, <<>>),
    Mesh2DFile(<<>>, Elems(200, 4, 1), <<>>, <<>>, <<>>),
    Mesh2DFile(Elems(100, 2, 1), <<>>, <<>>, << 0 >>,
               << ATTR(ATTRInfo(2, 1), RawBytes(1, 2)) >>),
    MeshFile_empty(3) }

GpuStart ==
  /\ gl = <<>>
  /\ meshes = <<>>
  /\ render_ret = NotRendered
  /\ shader = NoShader
  /\ binds = 0

\* nothing handed to from_src or from_path yet, no context loaded
Idle == [kind |-> "Idle"]

ExtStart ==
  /\ glsl_src = <<>>
  /\ typ = "Pipeline"
  /\ sfile = Idle
  /\ compiled = Idle
  /\ path = Idle
  /\ disk = Idle
  /\ fs = <<>>
  /\ loaded = Idle
  /\ sbuf = Idle
  /\ store = <<>>
  /\ last_op = Idle
  /\ renderer = Idle
  /\ caps = Idle
  /\ ncalls = 0

\* ------------------------------------------------------------------------
\* Specification of OBJ::parse, from_path and ship over the texts of the model
\* ------------------------------------------------------------------------
ParserStart ==
  /\ ln = 0
  /\ pos_data = <<>>
  /\ uvm_data = <<>>
  /\ nrm_data = <<>>
  /\ verts = <<>>
  /\ ci = 0
  /\ unique_verts = <<>>
  /\ pos_attr = <<>>
  /\ col_attr = <<>>
  /\ uvm_attr = <<>>
  /\ nrm_attr = <<>>
  /\ ind_attr = <<>>
  /\ keys = <<>>
  /\ ret = Running
  /\ run = 1
  /\ first_ret = Running

\* the build profile is only observable when some sub-index is the literal 0
HasZeroSubIndex(text) ==
  \E k \in 1 .. Len(text) : \E c \in 1 .. Len(text[k].corners) :
    \E a \in 1 .. Len(text[k].corners[c]) : text[k].corners[c][a] = "0"

Init ==
  /\ src \in Texts
  /\ overflow_checks \in (IF HasZeroSubIndex(src) THEN BOOLEAN ELSE { TRUE })
  /\ pc = "scan"
  /\ ParserStart
  /\ mesh = NoMesh
  /\ shipped = NotShipped
  /\ GpuStart
  /\ ExtStart

Next ==
  \/ ScanLine
  \/ ScanEnd
  \/ BuildCorner
  \/ BuildEnd
  \/ Reparse
  \/ from_path
  \/ ship

Spec == Init /\ [][Next]_vars

\* ------------------------------------------------------------------------
\* Specification of the assembly of a mesh file by its setters, and ship
\* ------------------------------------------------------------------------
InitMesh ==
  /\ src = <<>>
  /\ overflow_checks = TRUE
  /\ pc = "idle"
  /\ ParserStart
  /\ mesh \in { MeshFile_empty(3), MeshFile_empty(2) }
  /\ shipped = NotShipped
  /\ GpuStart
  /\ ExtStart

NextMesh ==
  \/ set_pos_attr
  \/ set_col_attr
  \/ set_uvm_attr
  \/ set_nrm_attr
  \/ set_ind_attr
  \/ attach_custom_attr
  \/ ship

SpecMesh == InitMesh /\ [][NextMesh]_vars

\* ------------------------------------------------------------------------
\* Specification of a shipped mesh and its clones: shader, visibility,
\* render and delete
\* ------------------------------------------------------------------------
InitEntity ==
  /\ src = <<>>
  /\ overflow_checks = TRUE
  /\ pc = "idle"
  /\ ParserStart
  /\ mesh \in MeshMenu
  /\ shipped = NotShipped
  /\ GpuStart
  /\ ExtStart

NextEntity ==
  \/ ship
  \/ Clone
  \/ SetShader
  \/ RemoveShader
  \/ SetVisibility
  \/ ToggleVisibility
  \/ Render
  \/ Delete

SpecEntity == InitEntity /\ [][NextEntity]_vars

\* ------------------------------------------------------------------------
\* Specification of the slot arrays of a compiled shader
\* ------------------------------------------------------------------------
InitShader ==
  /\ src = <<>>
  /\ overflow_checks = TRUE
  /\ pc = "idle"
  /\ ParserStart
  /\ mesh = NoMesh
  /\ shipped = NotShipped
  /\ gl = <<>>
  /\ meshes = <<>>
  /\ render_ret = NotRendered
  /\ shader \in { CompiledShader(1, c, { "uTfm" }) : c \in BOOLEAN } \cup
                { FilledShader(CompiledShader(1, FALSE, { "uTfm" }),
                               TexSlot_total_slots) }
  /\ binds = 0
  /\ ExtStart

NextShader ==
  \/ SetTexAtSlot
  \/ SetSboAtSlot

SpecShader == InitShader /\ [][NextShader]_vars

\* ------------------------------------------------------------------------
\* GLSL::parse and ShaderFile::from_src (asset/assets/shdr.rs).  A source is
\* a sequence of lines (what src.lines() yields), a line a sequence of
\* characters; a section (v_src, f_src) is the sequence of the lines pushed
\* to it, each followed by a line feed in the String.
\* ------------------------------------------------------------------------
MaxLines == 4

Slashes == << "/", "/" >>

VWords ==
  { << "v" >>, << "V" >>, << "v", "e", "r", "t" >>, << "V", "E", "R", "T" >>,
    << "v", "e", "r", "t", "e", "x" >>, << "V", "E", "R", "T", "E", "X" >> }

FWords ==
  { << "f" >>, << "F" >>, << "f", "r", "a", "g" >>, << "F", "R", "A", "G" >>,
    << "f", "r", "a", "g", "m", "e", "n", "t" >>,
    << "F", "R", "A", "G", "M", "E", "N", "T" >> }

\* "//v" | "//V" | "//vert" | ... | "// vertex" | "// VERTEX"
VMarkers == { Slashes \o w : w \in VWords } \cup { Slashes \o << " " >> \o w : w \in VWords }

\* "//f" | "//F" | "//frag" | ... | "// fragment" | "// FRAGMENT"
FMarkers == { Slashes \o w : w \in FWords } \cup { Slashes \o << " " >> \o w : w \in FWords }

\* str::trim
RECURSIVE trim_start(_)
trim_start(line) ==
  IF line # <<>> /\ line[1] = " " THEN trim_start(Tail(line)) ELSE line

RECURSIVE trim_end(_)
trim_end(line) ==
  IF line # <<>> /\ line[Len(line)] = " "
    THEN trim_end(SubSeq(line, 1, Len(line) - 1))
    ELSE line

trim(line) == trim_end(trim_start(line))

first_section_frag == "f"

\* let mut cur_src = &mut v_src
first_section == "v"

\* the locals of GLSL::parse after the first n lines of the loop
RECURSIVE Scan(_, _)
Scan(text, n) ==
  IF n = 0
    THEN [v_src |-> <<>>, f_src |-> <<>>, v_found |-> FALSE, f_found |-> FALSE,
          cur_src |-> first_section]
    ELSE LET st == Scan(text, n - 1)
             line == trim(text[n])
         IN IF line \in VMarkers
              THEN [st EXCEPT !.cur_src = "v", !.v_found = TRUE]
              ELSE IF line \in FMarkers
                THEN [st EXCEPT !.cur_src = "f", !.f_found = TRUE]
                ELSE IF st.cur_src = "v"
                  THEN [st EXCEPT !.v_src = Append(@, line)]
                  ELSE [st EXCEPT !.f_src = Append(@, line)]

\* if v_src.is_empty() || !v_found { v_missing = true }
missing(section, found) == section = <<>> \/ ~found

GLSL_parse(text, t) ==
  IF t = "Compute" THEN [kind |-> "ParsedCompute", src |-> text]
  ELSE LET st == Scan(text, Len(text))
           v_missing == missing(st.v_src, st.v_found)
           f_missing == missing(st.f_src, st.f_found)
       IN IF v_missing \/ f_missing
            THEN [kind |-> "FailedPipeline", v_missing |-> v_missing,
                  f_missing |-> f_missing]
            ELSE [kind |-> "ParsedPipeline", v_src |-> st.v_src, f_src |-> st.f_src]

\* Err(GLueError::from(GLueErrorKind::MissingSrc, "missing {missing}"))
MissingSrc(what) == [kind |-> "Err", err |-> "MissingSrc", missing |-> what]

ShaderFile_Pipe(v_src, f_src) == [kind |-> "Pipe", v_src |-> v_src, f_src |-> f_src]

ShaderFile_Comp(text) == [kind |-> "Comp", src |-> text]

ShaderFile_from_src(text, t) ==
  LET glsl == GLSL_parse(text, t)
  IN IF glsl.kind = "FailedPipeline"
       THEN MissingSrc(IF glsl.v_missing /\ glsl.f_missing THEN "vert + frag"
                       ELSE IF glsl.v_missing THEN "vert" ELSE "frag")
       ELSE IF glsl.kind = "ParsedPipeline"
         THEN ShaderFile_Pipe(glsl.v_src, glsl.f_src)
         ELSE ShaderFile_Comp(glsl.src)

from_src ==
  /\ sfile = Idle
  /\ sfile' = ShaderFile_from_src(glsl_src, typ)
  /\ UNCHANGED << objVars, runVars, meshVars, gpuVars, glsl_src, typ, compiled,
                  pathVars, ctxVars >>

\* ------------------------------------------------------------------------
\* ShaderFile::compile, link_program and compile_shader.  The backend hands
\* out the names 1, 2, 3 in the order the objects are created; what it
\* answers to the status queries is an input of the call.
\* ------------------------------------------------------------------------
program_id == 1

v_shader_id == 2

f_shader_id == 3

\* COMPILE_STATUS of the two shaders, LINK_STATUS of the program and
\* INFO_LOG_LENGTH of the object that failed
Outcomes == [v_ok : BOOLEAN, f_ok : BOOLEAN, link_ok : BOOLEAN, log_len : { 0, 8 }]

\* log.resize(log_len as usize - 1, 0) aborts when the log is empty
compile_failure(what, o) ==
  IF o.log_len = 0 THEN Panic("subtract with overflow: log_len as usize - 1")
  ELSE [kind |-> "Err", err |-> what]

\* gl_match_shader_type: Vert | Compute => VERTEX_SHADER, Frag => FRAGMENT_SHADER
gl_match_shader_type(t) == IF t = "Frag" THEN "FRAGMENT_SHADER" ELSE "VERTEX_SHADER"

compile_shader(id, t) ==
  << Gl("CreateShader", << gl_match_shader_type(t), id >>),
     Gl("ShaderSource", << id >>), Gl("CompileShader", << id >>) >>

delete_shader(id) == << Gl("DeleteShader", << id >>) >>

\* the calls made and the value returned, for a ShaderFile f and the
\* backend's answers o
link_program(f, o) ==
  LET is_compute == f.kind = "Comp"
      v == IF is_compute THEN "Compute" ELSE "Vert"
      c1 == << Gl("CreateProgram", << program_id >>) >> \o compile_shader(v_shader_id, v)
      c2 == c1 \o << Gl("AttachShader", << program_id, v_shader_id >>) >>
      c3 == IF is_compute THEN c2
            ELSE c2 \o compile_shader(f_shader_id, "Frag")
      c4 == (IF is_compute THEN c3
             ELSE c3 \o << Gl("AttachShader", << program_id, f_shader_id >>) >>)
              \o << Gl("LinkProgram", << program_id >>) >>
  IN IF ~o.v_ok
       THEN [calls |-> c1, ret |-> compile_failure("ShaderCompileFailed", o)]
       ELSE IF ~is_compute /\ ~o.f_ok
         THEN [calls |-> c3, ret |-> compile_failure("ShaderCompileFailed", o)]
         ELSE IF ~o.link_ok
           THEN [calls |-> c4, ret |-> compile_failure("ProgramLinkFailed", o)]
           ELSE [calls |-> c4 \o delete_shader(v_shader_id)
                             \o (IF is_compute THEN <<>> ELSE delete_shader(f_shader_id)),
                 ret |-> [kind |-> "Ok", id |-> program_id]]

\* the uniforms of the linked program are the backend's answer as well
compile ==
  /\ sfile.kind \in { "Pipe", "Comp" }
  /\ compiled = Idle
  /\ \E o \in Outcomes, uniforms \in { {}, { "uTfm", "uLayer" } } :
       LET r == link_program(sfile, o)
       IN /\ gl' = gl \o r.calls
          /\ compiled' = IF r.ret.kind = "Ok"
                           THEN CompiledShader(r.ret.id, sfile.kind = "Comp", uniforms)
                           ELSE r.ret
  /\ UNCHANGED << objVars, runVars, meshVars, meshes, render_ret, shader, binds,
                  glsl_src, typ, sfile, pathVars, ctxVars >>

\* the lines the sources of the model are made of:
\* "// VERT", "//Vert", " //f ", "// Frag", " x", "", "//  v"
LineMenu ==
  { Slashes \o << " ", "V", "E", "R", "T" >>,
    Slashes \o << "V", "e", "r", "t" >>,
    << " " >> \o Slashes \o << "f", " " >>,
    Slashes \o << " ", "F", "r", "a", "g" >>,
    << " ", "x" >>,
    << >>,
    Slashes \o << " ", " ", "v" >> }

GlslTexts == SeqsUpTo(LineMenu, MaxLines)

\* ------------------------------------------------------------------------
\* Specification of a shader source handed to from_src and then compiled
\* ------------------------------------------------------------------------
InitGLSL ==
  /\ src = <<>>
  /\ overflow_checks = TRUE
  /\ pc = "idle"
  /\ ParserStart
  /\ mesh = NoMesh
  /\ shipped = NotShipped
  /\ GpuStart
  /\ glsl_src \in GlslTexts
  /\ typ \in { "Pipeline", "Compute" }
  /\ sfile = Idle
  /\ compiled = Idle
  /\ path = Idle
  /\ disk = Idle
  /\ fs = <<>>
  /\ loaded = Idle
  /\ sbuf = Idle
  /\ store = <<>>
  /\ last_op = Idle
  /\ renderer = Idle
  /\ caps = Idle
  /\ ncalls = 0

NextGLSL ==
  \/ from_src
  \/ compile

SpecGLSL == InitGLSL /\ [][NextGLSL]_vars

\* ------------------------------------------------------------------------
\* Mesh3DFile::from_path up to the call of OBJ::parse, and the helpers of
\* asset/file.rs.  A path is given with what Path::file_stem and
\* Path::extension answer for it; an extension is a sequence of characters.
\* ------------------------------------------------------------------------
Path(text, stem, ext) == [text |-> text, name |-> stem, ex |-> ext]

PathMenu ==
  { Path("mesh.obj", Some("mesh"), Some(<< "o", "b", "j" >>)),
    Path("mesh.OBJ", Some("mesh"), Some(<< "O", "B", "J" >>)),
    Path("a.b.Obj", Some("a.b"), Some(<< "O", "b", "j" >>)),
    Path("mesh.ob", Some("mesh"), Some(<< "o", "b" >>)),
    Path("mesh.png", Some("mesh"), Some(<< "p", "n", "g" >>)),
    Path("mesh", Some("mesh"), None),
    Path(".obj", Some(".obj"), None),
    Path("..", None, None) }

\* util::ex::OBJ
EX_OBJ == << "o", "b", "j" >>

\* u8::to_ascii_lowercase on the letters of the extensions
to_ascii_lowercase(c) ==
  CASE c = "O" -> "o" [] c = "B" -> "b" [] c = "J" -> "j" [] c = "P" -> "p"
    [] c = "N" -> "n" [] c = "G" -> "g" [] OTHER -> c

eq_exact(a, b) == a = b

\* str::eq_ignore_ascii_case
eq_ignore_ascii_case(a, b) ==
  /\ Len(a) = Len(b)
  /\ \A i \in 1 .. Len(a) : to_ascii_lowercase(a[i]) = to_ascii_lowercase(b[i])

\* what the file system holds at the path: whether Path::exists answers
\* true, how File::open / read_to_string end, and the text read
Disk(exists, io, text) == [exists |-> exists, io |-> io, text |-> text]

ObjTexts ==
  { DataText(MaxPos, 0, 0) \o << FaceLine(<< <<"1">>, <<"1">>, <<"2">> >>) >>,
    DataText(MaxPos, MaxTex, 0)
      \o << FaceLine(<< <<"1", "1">>, <<"2", "1">>, <<"2", "2">> >>),
            FaceLine(<< <<"1">>, <<"2">> >>) >> }

DiskMenu ==
  { Disk(FALSE, "NotFound", <<>>) }
    \cup { Disk(TRUE, "Ok", t) : t \in ObjTexts }
    \cup { Disk(TRUE, e, <<>>) : e \in { "NotFound", "PermissionDenied", "Other" } }

GLueError(kind, by) == [kind |-> "Err", err |-> kind, by |-> by]

\* file::read_as_string
read_as_string(d) ==
  IF d.io = "Ok" THEN [kind |-> "Ok", text |-> d.text]
  ELSE IF d.io \in { "NotFound", "InvalidInput" }
    THEN GLueError("WierdFile", "read_as_string")
    ELSE IF d.io = "PermissionDenied"
      THEN GLueError("NoPerms", "read_as_string")
      ELSE GLueError("wtf", "read_as_string")

from_path_open ==
  /\ pc = "path"
  /\ IF \/ path.name = None
        \/ path.ex = None
        \/ ~eq_ignore_ascii_case(path.ex[1], EX_OBJ)
       THEN /\ loaded' = GLueError("WierdFile", "from_path")
            /\ pc' = "idle"
            /\ UNCHANGED << fs, src >>
       ELSE IF ~disk.exists
         THEN /\ loaded' = GLueError("Missing", "from_path")
              /\ fs' = fs \o << "exists" >>
              /\ pc' = "idle"
              /\ UNCHANGED src
         ELSE /\ fs' = fs \o << "exists", "read" >>
              /\ IF read_as_string(disk).kind = "Err"
                   THEN /\ loaded' = read_as_string(disk)
                        /\ pc' = "idle"
                        /\ UNCHANGED src
                   ELSE /\ src' = read_as_string(disk).text
                        /\ pc' = "scan"
                        /\ UNCHANGED loaded
  /\ UNCHANGED << overflow_checks, ln, pos_data, uvm_data, nrm_data, verts, ci,
                  unique_verts, pos_attr, col_attr, uvm_attr, nrm_attr, ind_attr,
                  keys, ret >>
  /\ UNCHANGED << runVars, meshVars, gpuVars, glslVars, path, disk, ctxVars >>

\* OBJ::NonTriangle(line) => Err(NotTriangle, "{path} -> line {line}")
from_path_not_triangle ==
  /\ pc = "done"
  /\ ret.kind = "NonTriangle"
  /\ loaded = Idle
  /\ path # Idle
  /\ loaded' = GLueError("NotTriangle", "from_path")
  /\ UNCHANGED << objVars, runVars, meshVars, gpuVars, glslVars, path, disk, fs,
                  ctxVars >>

\* ------------------------------------------------------------------------
\* Specification of Mesh3DFile::from_path over the paths and the file
\* systems of the model
\* ------------------------------------------------------------------------
InitPath ==
  /\ src = <<>>
  /\ overflow_checks = TRUE
  /\ pc = "path"
  /\ ParserStart
  /\ mesh = NoMesh
  /\ shipped = NotShipped
  /\ GpuStart
  /\ glsl_src = <<>>
  /\ typ = "Pipeline"
  /\ sfile = Idle
  /\ compiled = Idle
  /\ path \in PathMenu
  /\ disk \in DiskMenu
  /\ fs = <<>>
  /\ loaded = Idle
  /\ sbuf = Idle
  /\ store = <<>>
  /\ last_op = Idle
  /\ renderer = Idle
  /\ caps = Idle
  /\ ncalls = 0

NextPath ==
  \/ from_path_open
  \/ ScanLine
  \/ ScanEnd
  \/ BuildCorner
  \/ BuildEnd
  \/ from_path_not_triangle
  \/ from_path
  \/ ship

SpecPath == InitPath /\ [][NextPath]_vars

\* ------------------------------------------------------------------------
\* Mesh2DFile::quad (asset/assets/msh.rs) and Size2D::aspect_ratio
\* (renderer/camera/camera.rs).  The sizes of the model have w a multiple
\* of h, where the f32 quotient is that integer.
\* ------------------------------------------------------------------------
Size2D(w, h) == [w |-> w, h |-> h]

SizeMenu == { Size2D(1, 1), Size2D(16, 8), Size2D(9, 3) }

\* self.w as f32 / self.h as f32
aspect_ratio(size) == size.w \div size.h

\* Center::Middle.offset()
Center_Middle_offset == [x |-> 0, y |-> 0]

\* pos[0] += offset.x * self.aspect; pos[1] += offset.y
offset_pos_by_center(data, offset, aspect) ==
  [i \in 1 .. Len(data) |->
     << data[i][1] + offset.x * aspect, data[i][2] + offset.y >>]

Mesh2DFile_quad_fan(size) ==
  LET x == aspect_ratio(size)
  IN Mesh2DFile(<< << -x, 1 >>, << x, 1 >>, << x, -1 >>, << -x, -1 >> >>,
                [i \in 1 .. 4 |-> << 1, 1, 1, 1 >>],
                << << 0, 0 >>, << 1, 0 >>, << 1, 1 >>, << 0, 1 >> >>,
                << 0, 1, 2, 3 >>, <<>>)

Mesh2DFile_quad(size) ==
  LET x == aspect_ratio(size)
      y == 1
  IN Mesh2DFile(offset_pos_by_center(
                  << << -x, y >>, << x, y >>, << x, -y >>, << -x, -y >> >>,
                  Center_Middle_offset, x),
                [i \in 1 .. 4 |-> << 1, 1, 1, 1 >>],
                << << 0, 0 >>, << 1, 0 >>, << 1, 1 >>, << 0, 1 >> >>,
                << 0, 2, 1, 2, 0, 3 >>, <<>>)

quad ==
  /\ pc = "idle"
  /\ mesh = NoMesh
  /\ \E size \in SizeMenu : mesh' = Mesh2DFile_quad(size)
  /\ UNCHANGED << objVars, runVars, shipped, gpuVars, extVars >>

\* ------------------------------------------------------------------------
\* Specification of the built-in quad: construction, ship, and the life of
\* the Mesh2D it gives
\* ------------------------------------------------------------------------
InitQuad ==
  /\ src = <<>>
  /\ overflow_checks = TRUE
  /\ pc = "idle"
  /\ ParserStart
  /\ mesh = NoMesh
  /\ shipped = NotShipped
  /\ GpuStart
  /\ ExtStart

NextQuad ==
  \/ quad
  \/ ship
  \/ Clone
  \/ SetShader
  \/ RemoveShader
  \/ SetVisibility
  \/ ToggleVisibility
  \/ Render
  \/ Delete

SpecQuad == InitQuad /\ [][NextQuad]_vars

\* ------------------------------------------------------------------------
\* StorageBuffer (renderer/handles/mesh.rs).  store is the data store the
\* backend keeps for the buffer: one entry per byte, v its value and w
\* whether a fill or subfill wrote it.  BufferData with a null pointer
\* gives a store of the new size whose contents are undefined: any values.
\* Every call binds the buffer before it operates on it.
\* ------------------------------------------------------------------------
MaxBytes == 3
MaxCalls == 4

Bytes == { 0, 1 }

sbo_id == 1

Datas == SeqsUpTo(Bytes, MaxBytes)

\* gl::BufferData(SHADER_STORAGE_BUFFER, size, ptr::null(), DYNAMIC_DRAW)
resize_storage_buffer(size) == [1 .. size -> [v : Bytes, w : { FALSE }]]

\* gl::BufferData(SHADER_STORAGE_BUFFER, buffer.len(), buffer.as_ptr(), DYNAMIC_DRAW)
fill_storage_buffer(data) == [i \in 1 .. Len(data) |-> [v |-> data[i], w |-> TRUE]]

\* gl::BufferSubData(SHADER_STORAGE_BUFFER, offset, data.len(), data.as_ptr())
subfill_storage_buffer(st, offset, data) ==
  [i \in 1 .. Len(st) |->
     IF i > offset /\ i <= offset + Len(data)
       THEN [v |-> data[i - offset], w |-> TRUE]
       ELSE st[i]]

\* the (StorageBuffer, store) pairs StorageBuffer::resize can leave:
\* if size != self.size { self.size = size; resize_storage_buffer(..) }
resize(b, st, size) ==
  IF size # b.size
    THEN { << [b EXCEPT !.size = size], u >> : u \in resize_storage_buffer(size) }
    ELSE { << b, st >> }

Called(op, offset, data) == [op |-> op, offset |-> offset, data |-> data]

StorageBuffer_new ==
  /\ sbuf = Idle
  /\ \E size \in 0 .. MaxBytes :
       /\ sbuf' = StorageBuffer(sbo_id, size)
       /\ store' \in resize_storage_buffer(size)
       /\ last_op' = Called("new", size, <<>>)
  /\ ncalls' = ncalls + 1
  /\ UNCHANGED << objVars, runVars, meshVars, gpuVars, glslVars, pathVars,
                  renderer, caps >>

StorageBuffer_resize ==
  /\ sbuf # Idle
  /\ ncalls < MaxCalls
  /\ \E size \in 0 .. MaxBytes :
       /\ \E r \in resize(sbuf, store, size) :
            /\ sbuf' = r[1]
            /\ store' = r[2]
       /\ last_op' = Called("resize", size, <<>>)
  /\ ncalls' = ncalls + 1
  /\ UNCHANGED << objVars, runVars, meshVars, gpuVars, glslVars, pathVars,
                  renderer, caps >>

StorageBuffer_fill ==
  /\ sbuf # Idle
  /\ ncalls < MaxCalls
  /\ \E data \in Datas :
       /\ \E r \in resize(sbuf, store, Len(data)) :
            /\ sbuf' = r[1]
            /\ store' = fill_storage_buffer(data)
       /\ last_op' = Called("fill", 0, data)
  /\ ncalls' = ncalls + 1
  /\ UNCHANGED << objVars, runVars, meshVars, gpuVars, glslVars, pathVars,
                  renderer, caps >>

StorageBuffer_subfill ==
  /\ sbuf # Idle
  /\ ncalls < MaxCalls
  /\ \E data \in Datas, offset \in 0 .. MaxBytes :
       /\ offset + Len(data) <= MaxBytes
       /\ \E r \in resize(sbuf, store, Len(data) + offset) :
            /\ sbuf' = r[1]
            /\ store' = subfill_storage_buffer(r[2], offset, data)
       /\ last_op' = Called("subfill", offset, data)
  /\ ncalls' = ncalls + 1
  /\ UNCHANGED << objVars, runVars, meshVars, gpuVars, glslVars, pathVars,
                  renderer, caps >>

\* ------------------------------------------------------------------------
\* Specification of one StorageBuffer and the calls made on it
\* ------------------------------------------------------------------------
InitStorage ==
  /\ src = <<>>
  /\ overflow_checks = TRUE
  /\ pc = "idle"
  /\ ParserStart
  /\ mesh = NoMesh
  /\ shipped = NotShipped
  /\ GpuStart
  /\ ExtStart

NextStorage ==
  \/ StorageBuffer_new
  \/ StorageBuffer_resize
  \/ StorageBuffer_fill
  \/ StorageBuffer_subfill

SpecStorage == InitStorage /\ [][NextStorage]_vars

\* ------------------------------------------------------------------------
\* Renderer (renderer/renderer.rs) and the backend state it drives
\* (renderer/glraw.rs).  caps is the state of the context: the capabilities
\* CULL_FACE and MULTISAMPLE, the face CullFace selects, the winding
\* FrontFace selects.  What a fresh context holds is not set by the
\* program, so GL::load leaves any of the values.
\* ------------------------------------------------------------------------
Winding == { "CW", "CCW" }

GL_load ==
  [CULL_FACE : BOOLEAN, MULTISAMPLE : BOOLEAN, CullFace : { "BACK" },
   FrontFace : Winding]

enable_msaa(c, enable) == [c EXCEPT !.MULTISAMPLE = enable]

enable_cull_once(c, enable) ==
  IF enable THEN [c EXCEPT !.CULL_FACE = TRUE, !.CullFace = "BACK"] ELSE c
enable_cull(c, enable) ==
  IF enable
    THEN [c EXCEPT !.CULL_FACE = TRUE, !.CullFace = "BACK"]
    ELSE [c EXCEPT !.CULL_FACE = FALSE]

gl_set_cull_face(c, face) ==
  [c EXCEPT !.FrontFace = IF face = "Clock" THEN "CW" ELSE "CCW"]

\* a Renderer r together with the context c it owns
Rend(r, c) == [r |-> r, c |-> c]

set_msaa(s, enable) ==
  Rend([s.r EXCEPT !.msaa = enable], enable_msaa(s.c, enable))

toggle_msaa(s) ==
  LET r == [s.r EXCEPT !.msaa = ~s.r.msaa]
  IN  Rend(r, enable_msaa(s.c, r.msaa))

toggle_culling(s) ==
  LET r == [s.r EXCEPT !.culling = ~s.r.culling]
  IN  Rend(r, enable_cull(s.c, r.culling))

set_culling(s, enable) ==
  LET t == IF s.r.culling # enable THEN toggle_culling(s) ELSE s
  IN  Rend(t.r, enable_cull(t.c, enable))

set_cull_face(s, cull_face) ==
  LET r == [s.r EXCEPT !.cull_face = cull_face]
  IN  Rend(r, gl_set_cull_face(s.c, r.cull_face))

flip_cull_face(s) ==
  LET r == [s.r EXCEPT !.cull_face =
                         IF s.r.cull_face = "Clock" THEN "AntiClock" ELSE "Clock"]
  IN  Rend(r, gl_set_cull_face(s.c, r.cull_face))

Renderer_new(c) ==
  set_culling(
    set_msaa(
      Rend([kind |-> "Renderer", msaa |-> TRUE, culling |-> TRUE,
            cull_face |-> "AntiClock"], c),
      TRUE),
    TRUE)

Asked(op, enable) == [op |-> op, enable |-> enable]

RendFrame ==
  UNCHANGED << objVars, runVars, meshVars, gpuVars, glslVars, pathVars,
               sbuf, store >>

\* what a call on the Renderer leaves in renderer, caps and last_op
RendStep(s, op, enable) ==
  /\ renderer' = s.r
  /\ caps' = s.c
  /\ last_op' = Asked(op, enable)
  /\ ncalls' = ncalls + 1
  /\ RendFrame

RendererNew ==
  /\ renderer = Idle
  /\ \/ /\ renderer' = [kind |-> "GLError"]
        /\ UNCHANGED << caps, last_op, ncalls >>
        /\ RendFrame
     \/ \E c \in GL_load : RendStep(Renderer_new(c), "new", TRUE)

SetMsaa ==
  /\ renderer.kind = "Renderer"
  /\ ncalls < MaxCalls
  /\ \E enable \in BOOLEAN :
       RendStep(set_msaa(Rend(renderer, caps), enable), "set_msaa", enable)

ToggleMsaa ==
  /\ renderer.kind = "Renderer"
  /\ ncalls < MaxCalls
  /\ RendStep(toggle_msaa(Rend(renderer, caps)), "toggle_msaa", ~renderer.msaa)

SetCulling ==
  /\ renderer.kind = "Renderer"
  /\ ncalls < MaxCalls
  /\ \E enable \in BOOLEAN :
       RendStep(set_culling(Rend(renderer, caps), enable), "set_culling", enable)

ToggleCulling ==
  /\ renderer.kind = "Renderer"
  /\ ncalls < MaxCalls
  /\ RendStep(toggle_culling(Rend(renderer, caps)), "toggle_culling",
              ~renderer.culling)

SetCullFace ==
  /\ renderer.kind = "Renderer"
  /\ ncalls < MaxCalls
  /\ \E cull_face \in { "Clock", "AntiClock" } :
       RendStep(set_cull_face(Rend(renderer, caps), cull_face), "set_cull_face",
                cull_face = "Clock")

FlipCullFace ==
  /\ renderer.kind = "Renderer"
  /\ ncalls < MaxCalls
  /\ RendStep(flip_cull_face(Rend(renderer, caps)), "flip_cull_face",
              renderer.cull_face # "Clock")

\* ------------------------------------------------------------------------
\* Specification of one Renderer and the calls made on it
\* ------------------------------------------------------------------------
InitRenderer ==
  /\ src = <<>>
  /\ overflow_checks = TRUE
  /\ pc = "idle"
  /\ ParserStart
  /\ mesh = NoMesh
  /\ shipped = NotShipped
  /\ GpuStart
  /\ ExtStart

NextRenderer ==
  \/ RendererNew
  \/ SetMsaa
  \/ ToggleMsaa
  \/ SetCulling
  \/ ToggleCulling
  \/ SetCullFace
  \/ FlipCullFace

SpecRenderer == InitRenderer /\ [][NextRenderer]_vars

\* ------------------------------------------------------------------------
\* The text as the claims read it (computed from src alone)
\* ------------------------------------------------------------------------
IsFace(line) == line.tag = "f"

IsTriangle(line) == Len(line.corners) = 3

AllTriangles(text) ==
  \A k \in 1 .. Len(text) : IsFace(text[k]) => IsTriangle(text[k])

FaceLinesOf(text) == SelectSeq(text, IsFace)

RECURSIVE CornersOf(_)
CornersOf(text) ==
  IF text = <<>> THEN <<>>
  ELSE (IF IsFace(Head(text)) THEN Head(text).corners ELSE <<>>) \o CornersOf(Tail(text))

IsTag(t, line) == line.tag = t

LinesTagged(text, t) == SelectSeq(text, LAMBDA l : IsTag(t, l))

\* 1-based sub-index n is index n-1; an empty or non-numeric one is index 0
TokIndex(tok) == IF IsLit(tok) THEN LitValue(tok) - 1 ELSE 0

FirstArity(text) == Len(CornersOf(text)[1])

\* the vertex key of a corner: Some(..) for the attributes of the first corner
CornerKey(text, c) ==
  [a \in 1 .. 3 |->
     IF FirstArity(text) >= a /\ Len(c) >= a THEN Some(TokIndex(c[a])) ELSE None]

CornerKeys(text) ==
  { CornerKey(text, CornersOf(text)[i]) : i \in 1 .. Len(CornersOf(text)) }

\* the numbers of the k-th v / vt / vn line of the text
SrcNums(text, t, k) == LinesTagged(text, t)[k].nums

SrcPos(text, k) ==
  LET n == SrcNums(text, "v", k) IN << ParseF32(n[1]), ParseF32(n[2]), ParseF32(n[3]) >>

SrcNrm(text, k) ==
  LET n == SrcNums(text, "vn", k) IN << ParseF32(n[1]), ParseF32(n[2]), ParseF32(n[3]) >>

SrcUV(text, k) ==
  LET n == SrcNums(text, "vt", k) IN << ParseF32(n[1]), ParseF32(n[2]) >>

FlippedUV(uv) == << uv[1], 1 - uv[2] >>

\* the corners the de-duplication loop has handled are 1 .. Len(ind_attr)
Handled == 1 .. Len(ind_attr)

KeyOfCorner(i) == CornerKey(src, CornersOf(src)[i])

FirstSeen(i) == CHOOSE j \in 1 .. i :
  /\ KeyOfCorner(j) = KeyOfCorner(i)
  /\ \A h \in 1 .. (j - 1) : KeyOfCorner(h) # KeyOfCorner(i)

\* every data line carries its numbers, every sub-index given in a corner is
\* 1-based and points into its pool, and there is a face
WellFormed(text) ==
  /\ \A k \in 1 .. Len(text) :
       /\ text[k].tag \in { "v", "vn" } => Len(text[k].nums) >= 3
       /\ text[k].tag = "vt" => Len(text[k].nums) >= 2
  /\ CornersOf(text) # <<>>
  /\ \A i \in 1 .. Len(CornersOf(text)) :
       LET c == CornersOf(text)[i]
       IN /\ Len(c) >= 1
          /\ \A a \in 1 .. Len(c) :
               /\ IsLit(c[a]) => LitValue(c[a]) >= 1
               /\ a <= 3 =>
                    TokIndex(c[a]) <
                      Len(LinesTagged(text, CASE a = 1 -> "v" [] a = 2 -> "vt" [] a = 3 -> "vn"))

\* ------------------------------------------------------------------------
\* C1: for every text whose faces are all triangles, with N face lines and
\* K distinct vertex keys, OBJ::parse returns K positions, colours, UVs and
\* normals, every colour [1,1,1,1], and 3N indices, each < K.
\* ------------------------------------------------------------------------
C1_DedupCounts ==
  (pc = "done" /\ AllTriangles(src)) =>
    LET K == Cardinality(CornerKeys(src))
        N == Len(FaceLinesOf(src))
    IN /\ ret.kind = "Parsed"
       /\ Len(ret.pos_attr) = K
       /\ Len(ret.col_attr) = K
       /\ Len(ret.uvm_attr) = K
       /\ Len(ret.nrm_attr) = K
       /\ \A v \in 1 .. Len(ret.col_attr) : ret.col_attr[v] = <<1, 1, 1, 1>>
       /\ Len(ret.ind_attr) = 3 * N
       /\ \A i \in 1 .. Len(ret.ind_attr) : ret.ind_attr[i] < K

\* ------------------------------------------------------------------------
\* C2: two handled corners get the same index iff their vertex keys are
\* equal (None differing from Some(0)); the map holds exactly the keys of
\* the handled corners; and the position / UV / normal stored at a corner's
\* index is the pool element its key refers to (the default for None).
\* ------------------------------------------------------------------------
C2_DedupByKey ==
  /\ \A i, j \in Handled :
       (ind_attr[i] = ind_attr[j]) <=> (KeyOfCorner(i) = KeyOfCorner(j))
  /\ DOMAIN unique_verts = { KeyOfCorner(i) : i \in Handled }
  /\ \A i \in Handled :
       LET key == KeyOfCorner(i)
           v == ind_attr[i] + 1
       IN /\ unique_verts[key] = ind_attr[i]
          /\ key[1] # None => pos_attr[v] = SrcPos(src, key[1][1] + 1)
          /\ key[2] # None => uvm_attr[v] = FlippedUV(SrcUV(src, key[2][1] + 1))
          /\ key[3] # None => nrm_attr[v] = SrcNrm(src, key[3][1] + 1)

C2_Witness ==
  /\ pc = "done"
  /\ ret.kind = "Parsed"
  /\ Len(ret.ind_attr) = 6
  /\ KeyOfCorner(1)[2] # None
  /\ \E i, j \in Handled : i < j /\ ind_attr[i] = ind_attr[j]
  /\ \E i, j \in Handled : KeyOfCorner(i)[1] = KeyOfCorner(j)[1] /\ ind_attr[i] # ind_attr[j]

\* ------------------------------------------------------------------------
\* C3: OBJ::parse fails with NonTriangle iff the text has a face line whose
\* corner count is not 3; the failure carries the first such line, is
\* returned when that line is scanned, and carries no attribute data.
\* ------------------------------------------------------------------------
FirstBadFace(text) == CHOOSE k \in 1 .. Len(text) :
  /\ IsFace(text[k]) /\ ~IsTriangle(text[k])
  /\ \A h \in 1 .. (k - 1) : IsFace(text[h]) => IsTriangle(text[h])

C3_NonTriangleIff ==
  pc = "done" =>
    /\ (ret.kind = "NonTriangle") <=> ~AllTriangles(src)
    /\ ret.kind = "NonTriangle" =>
         /\ ret.line = src[FirstBadFace(src)]
         /\ ln = FirstBadFace(src)
         /\ DOMAIN ret = { "kind", "line" }

\* ------------------------------------------------------------------------
\* C4: for every text, OBJ parsing ends in a fully valid parsed mesh or in
\* a typed error returned to the caller; it never aborts.
\* ------------------------------------------------------------------------
C4_NoAbort ==
  pc = "done" =>
    \/ ret.kind = "NonTriangle"
    \/ /\ ret.kind = "Parsed"
       /\ Len(ret.col_attr) = Len(ret.pos_attr)
       /\ Len(ret.uvm_attr) = Len(ret.pos_attr)
       /\ Len(ret.nrm_attr) = Len(ret.pos_attr)
       /\ \A i \in 1 .. Len(ret.ind_attr) : ret.ind_attr[i] < Len(ret.pos_attr)

\* ------------------------------------------------------------------------
\* C5: every corner the loop reaches gets a key with Some(..) exactly for
\* the attributes present in the first corner of the file, whatever number
\* of sub-indices the corner itself carries.
\* ------------------------------------------------------------------------
C5_UniformPresence ==
  [][(pc = "build" /\ ci < Len(verts)) =>
       /\ Len(keys') = Len(keys) + 1
       /\ \A a \in 1 .. 3 :
            (keys'[Len(keys')][a] # None) <=> (Len(CornersOf(src)[1]) >= a)]_vars

\* ------------------------------------------------------------------------
\* C6: a sub-index token that is empty or not a number converts to index 0,
\* a numeric token n to n-1, and no conversion crashes.
\* ------------------------------------------------------------------------
C6_SubIndexConversion ==
  /\ ret # Panic("subtract with overflow in parse_to_usize")
  /\ \A i \in 1 .. Len(verts) :
       /\ Len(verts[i]) = Len(CornersOf(src)[i])
       /\ \A a \in 1 .. Len(verts[i]) : verts[i][a] = TokIndex(CornersOf(src)[i][a])

\* ------------------------------------------------------------------------
\* C7: in every triangular text, a corner without a normal sub-index gets
\* the normal [1,1,1] for its vertex, whether the normal is missing in the
\* whole file or only in that corner.
\* ------------------------------------------------------------------------
C7_DefaultNormal ==
  (pc = "done" /\ AllTriangles(src) /\ WellFormed(src)) =>
    /\ ret.kind = "Parsed"
    /\ \A i \in 1 .. Len(CornersOf(src)) :
         Len(CornersOf(src)[i]) < 3 => ret.nrm_attr[ret.ind_attr[i] + 1] = <<1, 1, 1>>

\* ------------------------------------------------------------------------
\* C8: a vertex whose key has no UV gets the default UV of the position in
\* its triangle of the corner that created it: (0,0), (0,1), (1,0) for the
\* global corner number modulo 3 being 0, 1, 2.
\* ------------------------------------------------------------------------
CornerDefaultUV(c) == CASE c = 0 -> <<0, 0>> [] c = 1 -> <<0, 1>> [] c = 2 -> <<1, 0>>

C8_DefaultUV ==
  \A i \in Handled :
    KeyOfCorner(i)[2] = None =>
      uvm_attr[ind_attr[i] + 1] = CornerDefaultUV((FirstSeen(i) - 1) % 3)

C8_Witness ==
  /\ pc = "done"
  /\ ret.kind = "Parsed"
  /\ KeyOfCorner(1)[2] = None
  /\ \E i \in Handled : FirstSeen(i) = i /\ i > 3 /\ (i - 1) % 3 = 2

\* ------------------------------------------------------------------------
\* C9: every UV taken from the text is stored with V = 1 - v of the source
\* value: in the pool, in the parsed UV buffer and, unchanged, in the
\* interleaved buffer built by ship; parsing the same text again from
\* scratch gives the same result.
\* ------------------------------------------------------------------------
UVFieldOf(h, v) ==
  LET first == (v - 1) * h.stride + h.attr_layout_calls[3].local_offset
  IN SubSeq(h.buffer, first + 1, first + 8)

C9_FlipOnce ==
  /\ \A k \in 1 .. Len(uvm_data) : uvm_data[k][2] = 1 - SrcUV(src, k)[2]
  /\ \A i \in Handled :
       KeyOfCorner(i)[2] # None =>
         uvm_attr[ind_attr[i] + 1][2] = 1 - SrcUV(src, KeyOfCorner(i)[2][1] + 1)[2]
  /\ shipped.kind = "Mesh" =>
       \A i \in Handled :
         KeyOfCorner(i)[2] # None =>
           LET uv == SrcUV(src, KeyOfCorner(i)[2][1] + 1)
           IN UVFieldOf(shipped, ind_attr[i] + 1) = u8ify(uv[1]) \o u8ify(1 - uv[2])
  /\ (run = 2 /\ pc = "done") => ret = first_ret

C9_Witness ==
  /\ run = 2
  /\ shipped.kind = "Mesh"
  /\ \E i, j \in Handled :
       /\ KeyOfCorner(i)[2] = Some(0)
       /\ KeyOfCorner(j)[2] = Some(1)
       /\ uvm_attr[ind_attr[i] + 1] = <<1, 1>>
       /\ uvm_attr[ind_attr[j] + 1] = <<2, 0>>

\* ------------------------------------------------------------------------
\* C10: in mesh compilation an attribute, fixed or custom, participates iff
\* its buffer is non-empty; the layout holds exactly the participating
\* attributes in the order Position, Color, UV, Normal, customs in
\* attachment order, with slots 0, 1, 2, ...; an empty attribute gets no
\* slot and adds no bytes to the stride.
\* ------------------------------------------------------------------------
Participating(m) ==
  SelectSeq(<< m.pos_attr, m.col_attr, m.uvm_attr, m.nrm_attr >> \o m.cus_attrs,
            LAMBDA a : Len(a.data) # 0)

C10_Participation ==
  shipped.kind = "Mesh" =>
    LET part == Participating(mesh)
    IN /\ shipped.layouts = [k \in 1 .. Len(part) |-> << part[k].info, k - 1 >>]
       /\ shipped.stride = SumSizes([k \in 1 .. Len(part) |-> part[k].info], Len(part))

\* ------------------------------------------------------------------------
\* C11: the vertex count of the handle is the length of the first non-empty
\* fixed attribute in the order Position, Color, UV, Normal (also when
\* Position is empty), and with custom attributes only it is the first
\* custom attribute's byte length divided by elem_count * byte_count.
\* ------------------------------------------------------------------------
FixedOf(m) == << m.pos_attr, m.col_attr, m.uvm_attr, m.nrm_attr >>

NonEmptyFixed(m) == SelectSeq(FixedOf(m), LAMBDA a : Len(a.data) # 0)

C11_VertexCount ==
  shipped.kind = "Mesh" =>
    IF NonEmptyFixed(mesh) # <<>>
      THEN shipped.vert_count = Len(NonEmptyFixed(mesh)[1].data)
      ELSE /\ Len(mesh.cus_attrs) > 0
           /\ shipped.vert_count =
                Len(mesh.cus_attrs[1].data)
                  \div (mesh.cus_attrs[1].info.elem_count * mesh.cus_attrs[1].info.byte_count)

\* ------------------------------------------------------------------------
\* C12: a mesh with no participating attribute and no index, once ship() is
\* called, is a handle with vertex count 0, index count 0, no indices and an
\* empty layout, nothing aborts, and the mesh is not visible.
\* ------------------------------------------------------------------------
C12_EmptyMeshShips ==
  (shipped # NotShipped /\ Participating(mesh) = <<>> /\ Len(mesh.ind_attr.data) = 0) =>
    /\ shipped.kind = "Mesh"
    /\ shipped.vert_count = 0
    /\ shipped.ind_count = 0
    /\ ~shipped.has_indices
    /\ shipped.layouts = <<>>
    /\ ~is_visible(shipped)

\* ------------------------------------------------------------------------
\* C13: for a mesh whose non-empty attribute buffers all have the same
\* vertex count, the interleaved buffer has vert_count * stride bytes (none
\* when vert_count = 0) and record i holds the bytes of element i of each
\* non-empty attribute in the order Position, Color, UV, Normal, customs.
\* ------------------------------------------------------------------------
NonEmptyCustoms(m) == SelectSeq(m.cus_attrs, LAMBDA a : Len(a.data) # 0)

ElemWidth(a) == a.info.elem_count * a.info.byte_count

ElemCounts(m) ==
  { Len(NonEmptyFixed(m)[k].data) : k \in 1 .. Len(NonEmptyFixed(m)) }
    \cup { Len(NonEmptyCustoms(m)[k].data) \div ElemWidth(NonEmptyCustoms(m)[k]) :
             k \in 1 .. Len(NonEmptyCustoms(m)) }

SameVertexCount(m) ==
  /\ Cardinality(ElemCounts(m)) <= 1
  /\ \A k \in 1 .. Len(NonEmptyCustoms(m)) :
       Len(NonEmptyCustoms(m)[k].data) % ElemWidth(NonEmptyCustoms(m)[k]) = 0

\* the four bytes of each f32 of element i, scalar after scalar
FieldBytes(a, i) ==
  [b \in 1 .. (4 * a.info.elem_count) |->
     << "f32", a.data[i + 1][((b - 1) \div 4) + 1], ((b - 1) % 4) + 1 >>]

\* the window of element i in the raw bytes of a custom attribute
WindowBytes(a, i) == [b \in 1 .. ElemWidth(a) |-> a.data[(i * ElemWidth(a)) + b]]

RECURSIVE Concat(_)
Concat(ss) == IF ss = <<>> THEN <<>> ELSE Head(ss) \o Concat(Tail(ss))

ExpectedRecord(m, i) ==
  Concat([k \in 1 .. Len(NonEmptyFixed(m)) |-> FieldBytes(NonEmptyFixed(m)[k], i)])
    \o Concat([k \in 1 .. Len(NonEmptyCustoms(m)) |-> WindowBytes(NonEmptyCustoms(m)[k], i)])

RECURSIVE WidthsBefore(_, _)
WidthsBefore(attrs, k) ==
  IF k <= 1 THEN 0 ELSE WidthsBefore(attrs, k - 1) + ElemWidth(attrs[k - 1])

OnlyPosAndUV(m) ==
  /\ m.dim = 3
  /\ Len(m.pos_attr.data) # 0
  /\ Len(m.uvm_attr.data) # 0
  /\ Len(m.col_attr.data) = 0
  /\ Len(m.nrm_attr.data) = 0
  /\ m.cus_attrs = <<>>

C14_StrideOffsets ==
  shipped.kind = "Mesh" =>
    LET part == Participating(mesh)
        calls == shipped.attr_layout_calls
    IN /\ shipped.stride = WidthsBefore(part, Len(part) + 1)
       /\ Len(calls) = Len(part)
       /\ \A k \in 1 .. Len(part) :
            /\ calls[k].local_offset = WidthsBefore(part, k)
            /\ calls[k].stride = shipped.stride
       /\ OnlyPosAndUV(mesh) =>
            /\ shipped.stride = 20
            /\ calls[2].local_offset = 12

\* ------------------------------------------------------------------------
\* C15: one compilation uploads the vertex buffer in exactly one call that
\* carries the whole interleaved buffer when vert_count > 0 and in no call
\* otherwise; the index buffer in exactly one call that carries the whole
\* index array when the index attribute is non-empty and in no call
\* otherwise; no call carries a strict part of either.
\* ------------------------------------------------------------------------
IsUpload(call, target) == call.op = "BufferData" /\ call.args[1] = target

UploadsTo(target) == SelectSeq(gl, LAMBDA call : IsUpload(call, target))

DrawCalls == SelectSeq(gl, LAMBDA call : call.op \in { "DrawArrays", "DrawElements" })

C16_Indices ==
  \A k \in 1 .. Len(meshes) :
    meshes[k].kind = "Mesh" =>
      IF Len(mesh.ind_attr.data) # 0
        THEN /\ meshes[k].has_indices
             /\ meshes[k].ind_count = Len(mesh.ind_attr.data)
             /\ \E j \in 1 .. Len(gl) :
                  /\ IsUpload(gl[j], "ELEMENT_ARRAY_BUFFER")
                  /\ gl[j].args[2] = mesh.ind_attr.data
             /\ \A j \in 1 .. Len(DrawCalls) :
                  DrawCalls[j] = Gl("DrawElements", << "Triangles", Len(mesh.ind_attr.data) >>)
        ELSE /\ ~meshes[k].has_indices
             /\ meshes[k].ind_count = 0
             /\ UploadsTo("ELEMENT_ARRAY_BUFFER") = <<>>
             /\ \A j \in 1 .. Len(DrawCalls) :
                  DrawCalls[j] = Gl("DrawArrays", << "Triangles", 0, meshes[k].vert_count >>)

C16_Witness ==
  /\ Len(meshes) >= 1
  /\ meshes[1].kind = "Mesh"
  /\ meshes[1].has_indices
  /\ Len(DrawCalls) = MaxRenders

\* ------------------------------------------------------------------------
\* C17: across ship, clone, set_shader, render and delete, the vertex-array,
\* vertex-buffer and index-buffer names created by one compilation are
\* released by one delete call only, and no draw is issued after they were
\* released.
\* ------------------------------------------------------------------------
IsRelease(call) == call.op = "DeleteVertexArrays" /\ call.args = << vao_id >>

C17_ReleasedOnce ==
  /\ Len(SelectSeq(gl, IsRelease)) <= 1
  /\ \A i \in 1 .. Len(gl) : \A j \in (i + 1) .. Len(gl) :
       IsRelease(gl[i]) => gl[j].op \notin { "DrawArrays", "DrawElements" }

\* ------------------------------------------------------------------------
\* C18: after any set_visibility / toggle_visibility calls, is_visible() is
\* true exactly when the visibility flag is set or vert_count > 0, so that
\* render() of a mesh with a shader attached issues a draw exactly then (a
\* hidden non-empty mesh is still drawn).
\* ------------------------------------------------------------------------
IssuesDraw ==
  /\ Len(gl') > Len(gl)
  /\ gl'[Len(gl')].op \in { "DrawArrays", "DrawElements" }

C19_SlotArrays ==
  [][/\ \A sbo \in SboMenu, s \in TexSlots :
          set_sbo_at_slot(sbo, s) =>
            /\ shader'.sbo_ids[s + 1] = Some(sbo.id)
            /\ shader'.tex_ids = shader.tex_ids
     /\ \A tex \in TexMenu, s \in TexSlots :
          set_tex_at_slot(tex, s) =>
            /\ shader'.tex_ids[s + 1] = Some(tex.id)
            /\ shader'.sbo_ids = shader.sbo_ids]_vars

\* ------------------------------------------------------------------------
\* C20: binding a resource to slot s overwrites whatever occupied slot s of
\* the resource's slot array, leaves every other slot of that array
\* unchanged, makes no backend call (no delete of the previous occupant),
\* and both slot arrays keep their length of 12.
\* ------------------------------------------------------------------------
OthersKept(old, new, s) ==
  \A t \in 1 .. Len(old) : t # s + 1 => new[t] = old[t]

C20_Overwrite ==
  [][/\ \A tex \in TexMenu, s \in TexSlots :
          set_tex_at_slot(tex, s) =>
            /\ shader'.tex_ids[s + 1] = Some(tex.id)
            /\ OthersKept(shader.tex_ids, shader'.tex_ids, s)
     /\ \A sbo \in SboMenu, s \in TexSlots :
          set_sbo_at_slot(sbo, s) =>
            /\ shader'.sbo_ids[s + 1] = Some(sbo.id)
            /\ OthersKept(shader.sbo_ids, shader'.sbo_ids, s)
     /\ gl' = gl
     /\ Len(shader'.tex_ids) = 12
     /\ Len(shader'.sbo_ids) = 12]_vars

\* ------------------------------------------------------------------------
\* C21: once every slot of the texture slot array is occupied by a distinct
\* resource, a further attach of a new resource is refused: it does not
\* replace or drop any occupant.
\* ------------------------------------------------------------------------
SlotsFull(ids) ==
  /\ \A s \in 1 .. Len(ids) : ids[s] # None
  /\ \A s, t \in 1 .. Len(ids) : s # t => ids[s] # ids[t]

C21_FullRejects ==
  [][(SlotsFull(shader.tex_ids) /\ binds' = binds + 1) =>
       shader'.tex_ids = shader.tex_ids]_vars

\* ------------------------------------------------------------------------
\* C22: during mesh compilation the attribute-layout calls and the vertex
\* upload happen while the mesh's vertex array and vertex buffer are bound,
\* the index upload happens while the mesh's index buffer is bound, and
\* when compilation returns none of the vertex-array, vertex-buffer and
\* index-buffer bindings is still bound.
\* ------------------------------------------------------------------------
\* the name bound to a binding point after the first n calls of the log
\* (0: nothing bound)
RECURSIVE BoundAfter(_, _, _)
BoundAfter(log, n, point) ==
  IF n = 0 THEN 0
  ELSE LET c == log[n]
       IN IF point = "VERTEX_ARRAY" /\ c.op = "BindVertexArray" THEN c.args[1]
          ELSE IF point # "VERTEX_ARRAY" /\ c.op = "BindBuffer" /\ c.args[1] = point
            THEN c.args[2]
            ELSE BoundAfter(log, n - 1, point)

OperatesUnderBinding ==
  \A n \in 1 .. Len(gl) :
    /\ gl[n].op \in { "VertexAttribPointer", "EnableVertexAttribArray" } =>
         /\ BoundAfter(gl, n - 1, "VERTEX_ARRAY") = vao_id
         /\ BoundAfter(gl, n - 1, "ARRAY_BUFFER") = buf_id
    /\ IsUpload(gl[n], "ARRAY_BUFFER") =>
         /\ BoundAfter(gl, n - 1, "VERTEX_ARRAY") = vao_id
         /\ BoundAfter(gl, n - 1, "ARRAY_BUFFER") = buf_id
    /\ IsUpload(gl[n], "ELEMENT_ARRAY_BUFFER") =>
         BoundAfter(gl, n - 1, "ELEMENT_ARRAY_BUFFER") = ind_id

NothingLeftBound ==
  \A point \in { "VERTEX_ARRAY", "ARRAY_BUFFER", "ELEMENT_ARRAY_BUFFER" } :
    BoundAfter(gl, Len(gl), point) = 0

C22_BindUnbind ==
  shipped.kind = "Mesh" => (OperatesUnderBinding /\ NothingLeftBound)

\* ------------------------------------------------------------------------
\* C23: for a pipeline source, a trimmed line is a vertex marker when it
\* equals //v, //vert or //vertex compared case-insensitively, with or
\* without one space after //, and a fragment marker likewise for //f,
\* //frag, //fragment; every other line is appended to the section of the
\* most recent marker; a compute source is returned verbatim.
\* ------------------------------------------------------------------------
Lower(c) ==
  CASE c = "V" -> "v" [] c = "E" -> "e" [] c = "R" -> "r" [] c = "T" -> "t"
    [] c = "X" -> "x" [] c = "F" -> "f" [] c = "A" -> "a" [] c = "G" -> "g"
    [] c = "M" -> "m" [] c = "N" -> "n" [] c = "O" -> "o" [] c = "B" -> "b"
    [] c = "J" -> "j" [] c = "P" -> "p" [] OTHER -> c

LowerLine(line) == [i \in 1 .. Len(line) |-> Lower(line[i])]

IsMarkerOf(line, words) ==
  \E w \in words :
    LowerLine(trim(line)) \in { Slashes \o w, Slashes \o << " " >> \o w }

IsVertexMarker(line) ==
  IsMarkerOf(line, { << "v" >>, << "v", "e", "r", "t" >>,
                     << "v", "e", "r", "t", "e", "x" >> })

IsFragmentMarker(line) ==
  IsMarkerOf(line, { << "f" >>, << "f", "r", "a", "g" >>,
                     << "f", "r", "a", "g", "m", "e", "n", "t" >> })

LineHandledAsClaimed(text, n) ==
  LET before == Scan(text, n - 1)
      after == Scan(text, n)
  IN IF IsVertexMarker(text[n])
       THEN after = [before EXCEPT !.cur_src = "v", !.v_found = TRUE]
       ELSE IF IsFragmentMarker(text[n])
         THEN after = [before EXCEPT !.cur_src = "f", !.f_found = TRUE]
         ELSE IF before.cur_src = "v"
           THEN after = [before EXCEPT !.v_src = Append(@, trim(text[n]))]
           ELSE after = [before EXCEPT !.f_src = Append(@, trim(text[n]))]

C23_Markers ==
  sfile # Idle =>
    IF typ = "Compute" THEN sfile = ShaderFile_Comp(glsl_src)
    ELSE \A n \in 1 .. Len(glsl_src) : LineHandledAsClaimed(glsl_src, n)

\* ------------------------------------------------------------------------
\* C24: from_src on a pipeline source returns a MissingSrc error exactly
\* when the vertex section or the fragment section is missing (its marker
\* never appears) or empty, and the error names the absent side: vertex
\* only, fragment only, or both; otherwise it returns both sections.
\* ------------------------------------------------------------------------
\* the sections of a source, split at the marker lines of C23
RECURSIVE Sections(_, _)
Sections(text, n) ==
  IF n = 0
    THEN [v_src |-> <<>>, f_src |-> <<>>, v_found |-> FALSE, f_found |-> FALSE,
          cur_src |-> "v"]
    ELSE LET st == Sections(text, n - 1)
         IN IF IsVertexMarker(text[n])
              THEN [st EXCEPT !.cur_src = "v", !.v_found = TRUE]
              ELSE IF IsFragmentMarker(text[n])
                THEN [st EXCEPT !.cur_src = "f", !.f_found = TRUE]
                ELSE IF st.cur_src = "v"
                  THEN [st EXCEPT !.v_src = Append(@, trim(text[n]))]
                  ELSE [st EXCEPT !.f_src = Append(@, trim(text[n]))]

C24_MissingSrc ==
  (sfile # Idle /\ typ = "Pipeline") =>
    LET st == Sections(glsl_src, Len(glsl_src))
        v_absent == ~st.v_found \/ st.v_src = <<>>
        f_absent == ~st.f_found \/ st.f_src = <<>>
    IN IF v_absent /\ f_absent THEN sfile = MissingSrc("vert + frag")
       ELSE IF v_absent THEN sfile = MissingSrc("vert")
       ELSE IF f_absent THEN sfile = MissingSrc("frag")
       ELSE sfile = ShaderFile_Pipe(st.v_src, st.f_src)

\* ------------------------------------------------------------------------
\* C29: in GLSL::parse for a pipeline source the lines before the first
\* marker line are appended to the vertex section, and a source with text,
\* then a fragment marker and fragment text but no vertex marker is
\* reported as missing the vertex side although the vertex text is not
\* empty.
\* ------------------------------------------------------------------------
MarkerAt(text, n) == trim(text[n]) \in VMarkers \cup FMarkers

BeforeFirstMarker(text, n) == \A j \in 1 .. n : ~MarkerAt(text, j)

TextThenFragmentOnly(text) ==
  /\ Len(text) >= 3
  /\ BeforeFirstMarker(text, 1)
  /\ \A n \in 1 .. Len(text) : trim(text[n]) \notin VMarkers
  /\ \E n \in 2 .. Len(text) - 1 :
       trim(text[n]) \in FMarkers /\ ~MarkerAt(text, n + 1)

C29_LeadingText ==
  (sfile # Idle /\ typ = "Pipeline") =>
    LET st == Scan(glsl_src, Len(glsl_src))
    IN /\ \A n \in 1 .. Len(glsl_src) :
            BeforeFirstMarker(glsl_src, n) =>
              (Len(st.v_src) >= n /\ st.v_src[n] = trim(glsl_src[n]))
       /\ TextThenFragmentOnly(glsl_src) =>
            (st.v_src # <<>> /\ st.f_src # <<>> /\ sfile = MissingSrc("vert"))

C29_Witness ==
  /\ typ = "Pipeline"
  /\ TextThenFragmentOnly(glsl_src)
  /\ glsl_src[1] = << " ", "x" >>
  /\ sfile = MissingSrc("vert")

\* ------------------------------------------------------------------------
\* C27: when ShaderFile::compile returns an error no backend object created
\* during the call (the program object, a compiled shader object) remains
\* allocated; when it succeeds exactly the program object remains and the
\* intermediate shader objects are deleted.
\* ------------------------------------------------------------------------
Created(log) ==
  { log[n].args[1] : n \in { k \in 1 .. Len(log) : log[k].op = "CreateProgram" } }
    \cup { log[n].args[2] : n \in { k \in 1 .. Len(log) : log[k].op = "CreateShader" } }

Deleted(log) ==
  { log[n].args[1] :
      n \in { k \in 1 .. Len(log) : log[k].op \in { "DeleteShader", "DeleteProgram" } } }

C27_NothingLeaks ==
  /\ compiled.kind = "Err" => Created(gl) \ Deleted(gl) = {}
  /\ compiled.kind = "Shader" => Created(gl) \ Deleted(gl) = { program_id }

\* ------------------------------------------------------------------------
\* C25: Mesh3DFile::from_path checks the path before any read: a path
\* without a file name or whose extension is not the OBJ extension
\* (compared case-insensitively) is rejected with a file error without
\* testing existence or reading the file; a path with the right extension
\* that does not exist yields a missing-file error; only then is the content
\* read and parsed, and a read error is returned unchanged.
\* ------------------------------------------------------------------------
HasObjExtension(p) ==
  p.ex # None /\ LowerLine(p.ex[1]) = << "o", "b", "j" >>

NothingParsed == src = <<>> /\ ln = 0 /\ ret = Running /\ mesh = NoMesh

C25_PathChecks ==
  pc # "path" =>
    IF path.name = None \/ ~HasObjExtension(path)
      THEN /\ loaded = GLueError("WierdFile", "from_path")
           /\ fs = <<>>
           /\ NothingParsed
      ELSE IF ~disk.exists
        THEN /\ loaded = GLueError("Missing", "from_path")
             /\ fs = << "exists" >>
             /\ NothingParsed
        ELSE /\ fs = << "exists", "read" >>
             /\ IF disk.io = "Ok"
                  THEN /\ src = disk.text
                       /\ (loaded.kind = "Err" => loaded.err = "NotTriangle")
                  ELSE loaded = read_as_string(disk) /\ NothingParsed

C25_Witness ==
  /\ path.text = "mesh.OBJ"
  /\ disk.exists
  /\ disk.io = "PermissionDenied"
  /\ loaded = GLueError("NoPerms", "read_as_string")
  /\ fs = << "exists", "read" >>

\* ------------------------------------------------------------------------
\* C26: Mesh2DFile::quad(size) yields, for every size, a mesh with 4
\* positions, 4 colours, 4 UVs equal to (0,0),(1,0),(1,1),(0,1) in that
\* order, and 6 indices forming 2 triangles, every index being < 4;
\* shipping it gives vertex_count = 4, index_count = 6 and has_indices.
\* ------------------------------------------------------------------------
TwoTriangles(ind) ==
  /\ Len(ind) = 6
  /\ \A k \in 1 .. 6 : ind[k] \in 0 .. 3
  /\ \A t \in 0 .. 1 :
       Cardinality({ ind[3 * t + 1], ind[3 * t + 2], ind[3 * t + 3] }) = 3

C26_Quad ==
  /\ mesh # NoMesh =>
       /\ Len(mesh.pos_attr.data) = 4
       /\ Len(mesh.col_attr.data) = 4
       /\ mesh.uvm_attr.data = << << 0, 0 >>, << 1, 0 >>, << 1, 1 >>, << 0, 1 >> >>
       /\ TwoTriangles(mesh.ind_attr.data)
  /\ shipped # NotShipped =>
       /\ shipped.kind = "Mesh"
       /\ shipped.vert_count = 4
       /\ shipped.ind_count = 6
       /\ shipped.has_indices

C26_Witness ==
  /\ mesh \in { Mesh2DFile_quad(size) : size \in SizeMenu }
  /\ Len(mesh.pos_attr.data) = 4
  /\ shipped.kind = "Mesh"
  /\ shipped.vert_count = 4
  /\ shipped.ind_count = 6

\* ------------------------------------------------------------------------
\* C28: for a StorageBuffer, after any sequence of new, resize, fill and
\* subfill calls the recorded size equals the byte size of the backend
\* allocation, and subfill(offset, data) changes only the bytes in
\* [offset, offset + data.len()): bytes written earlier outside that range
\* keep their values.
\* ------------------------------------------------------------------------
SizeIsAllocation == sbuf # Idle => sbuf.size = Len(store)

SubfillKeepsTheRest ==
  (ncalls' = ncalls + 1 /\ last_op'.op = "subfill") =>
    \A i \in 1 .. Len(store) :
      (store[i].w /\ (i <= last_op'.offset
                        \/ i > last_op'.offset + Len(last_op'.data))) =>
        (i <= Len(store') /\ store'[i] = store[i])

C28_SizeAndFrame == [](SizeIsAllocation) /\ [][SubfillKeepsTheRest]_vars

\* ------------------------------------------------------------------------
\* C30: for a Renderer, after Renderer::new and any sequence of
\* set_culling, toggle_culling, set_msaa and toggle_msaa calls, the recorded
\* culling flag equals the backend's face-culling enabled state and the
\* recorded msaa flag equals the backend's multisample enabled state;
\* set_culling(e) always ends with culling = e.
\* ------------------------------------------------------------------------
C30_Flags ==
  renderer.kind = "Renderer" =>
    /\ renderer.culling = caps.CULL_FACE
    /\ renderer.msaa = caps.MULTISAMPLE
    /\ (last_op.op = "set_culling" => renderer.culling = last_op.enable)

C30_Witness ==
  /\ renderer.kind = "Renderer"
  /\ last_op = Asked("set_culling", FALSE)
  /\ ~renderer.culling
  /\ ~caps.CULL_FACE
  /\ ~renderer.msaa
  /\ ~caps.MULTISAMPLE

====
